---- MODULE Spec2Model ----
(***************************************************************************)
(* SGHSS clinical-records backend: accounts, patients, appointments        *)
(* (consultas) and visit notes (prontuarios) behind a JSON/HTTP boundary.  *)
(*                                                                         *)
(* Text is modelled as a sequence of one-character strings.  Two tokens    *)
(* stand for non-ASCII characters: "ar3" is U+0663 (ARABIC-INDIC DIGIT     *)
(* THREE, matched by \d and accepted by str.isdigit) and "sup2" is U+00B2  *)
(* (SUPERSCRIPT TWO, accepted by str.isdigit but not matched by \d).       *)
(* "\t", "\n", "\r" and "\f" are the ASCII controls; "vt" is U+000B,        *)
(* "fs", "gs", "rs", "us" are U+001C..U+001F, "nel" is U+0085, "nbsp" is   *)
(* U+00A0 and a token "uXXXX" is the blank with that code point.           *)
(* A JSON member is a record [t, v]: t = "str" with the text in v,         *)
(* t = "absent" for a key that is not in the body and t = "null" for a     *)
(* member that is not a string (calling .strip() on it raises).            *)
(* A nullable column holds a "str" (or "date") value or Null.              *)
(*                                                                         *)
(* Row ids are positions in the table sequences (autoincrement keys).      *)
(* Creation timestamps, and the update timestamps of accounts and          *)
(* appointments, are written but never read by a handler decision; only    *)
(* the patient's data_atualizacao is carried in the state.                 *)
(***************************************************************************)
EXTENDS Integers, Sequences, FiniteSets, TLC

(***************************************************************************)
(* Bounds of the model                                                     *)
(***************************************************************************)
MaxUsers == 2
MaxPacientes == 2
MaxConsultas == 2
MaxProntuarios == 2
MaxClock == 1
MaxInflight == 2

(***************************************************************************)
(* Characters and text helpers (Python str / re semantics)                 *)
(***************************************************************************)
AsciiDigits == {"0", "1", "2", "3", "4", "5", "6", "7", "8", "9"}
NonZeroDigits == AsciiDigits \ {"0"}
DecimalDigits == AsciiDigits \cup {"ar3"}
IsDigitChars == DecimalDigits \cup {"sup2"}
\* str.isspace(), the characters str.strip() removes and \s of re matches
Whitespace ==
    {" ", "\t", "\n", "\r", "\f", "vt", "fs", "gs", "rs", "us", "nel", "nbsp",
     "u1680", "u2000", "u2001", "u2002", "u2003", "u2004", "u2005", "u2006",
     "u2007", "u2008", "u2009", "u200a", "u2028", "u2029", "u202f", "u205f", "u3000"}
LowerLetters == {"a", "b", "c", "d", "e", "f", "g", "h", "i", "j", "k", "l", "m",
                 "n", "o", "p", "q", "r", "s", "t", "u", "v", "w", "x", "y", "z"}
UpperLetters == {"A", "B", "C", "D", "E", "F", "G", "H", "I", "J", "K", "L", "M",
                 "N", "O", "P", "Q", "R", "S", "T", "U", "V", "W", "X", "Y", "Z"}
Letters == LowerLetters \cup UpperLetters
EmailLocalChars == Letters \cup AsciiDigits \cup {".", "_", "%", "+", "-"}
EmailDomainChars == Letters \cup AsciiDigits \cup {".", "-"}

S(chars) == [t |-> "str", v |-> chars]
Absent == [t |-> "absent", v |-> <<>>]
\* the JSON literal false
JsonFalse == [t |-> "false", v |-> <<>>]
Null == [t |-> "null", v |-> <<>>]
DateValue(ymd) == [t |-> "date", v |-> ymd]

\* data.get(key, "") : the member, or "" when the key is absent
get(member) == IF member.t = "absent" THEN S(<<>>) ELSE member

\* value.strip() raises AttributeError unless the value is a str
Raises(member) == member.t # "str"

RECURSIVE lstrip(_)
lstrip(s) == IF s # <<>> /\ Head(s) \in Whitespace THEN lstrip(Tail(s)) ELSE s

RECURSIVE rstrip(_)
rstrip(s) ==
    IF s # <<>> /\ s[Len(s)] \in Whitespace THEN rstrip(SubSeq(s, 1, Len(s) - 1)) ELSE s

strip(s) == rstrip(lstrip(s))

\* re.sub(r'\D', '', s)
IsDecimalDigit(c) == c \in DecimalDigits
sub_nondigits(s) == SelectSeq(s, IsDecimalDigit)

\* str.isdigit()
isdigit(s) == s # <<>> /\ \A i \in 1..Len(s) : s[i] \in IsDigitChars

DigitValue(c) ==
    CASE c = "0" -> 0 [] c = "1" -> 1 [] c = "2" -> 2 [] c = "3" -> 3 [] c = "4" -> 4
      [] c = "5" -> 5 [] c = "6" -> 6 [] c = "7" -> 7 [] c = "8" -> 8 [] c = "9" -> 9
      [] c = "ar3" -> 3

\* int() of a strptime field; the day field may carry one leading blank
RECURSIVE int(_)
int(s) ==
    IF s = <<>> THEN 0
    ELSE IF s[Len(s)] \in Whitespace THEN 0
    ELSE 10 * int(SubSeq(s, 1, Len(s) - 1)) + DigitValue(s[Len(s)])

\* position of the first occurrence of c in s at or after position from, else 0
RECURSIVE find(_, _, _)
find(s, c, from) ==
    IF from > Len(s) THEN 0
    ELSE IF s[from] = c THEN from
    ELSE find(s, c, from + 1)

\* position of the last whitespace character of s, else 0
RECURSIVE rfind_space(_, _)
rfind_space(s, upto) ==
    IF upto < 1 THEN 0
    ELSE IF s[upto] \in Whitespace THEN upto
    ELSE rfind_space(s, upto - 1)

(***************************************************************************)
(* datetime.strptime (Lib/_strptime.py directive patterns)                 *)
(***************************************************************************)
\* %Y : \d\d\d\d
YearField(f) == Len(f) = 4 /\ \A i \in 1..4 : f[i] \in DecimalDigits

\* %m : 1[0-2]|0[1-9]|[1-9]
MonthField(f) ==
    \/ Len(f) = 2 /\ f[1] = "1" /\ f[2] \in {"0", "1", "2"}
    \/ Len(f) = 2 /\ f[1] = "0" /\ f[2] \in NonZeroDigits
    \/ Len(f) = 1 /\ f[1] \in NonZeroDigits

\* %d : 3[0-1]|[1-2]\d|0[1-9]|[1-9]| [1-9]
DayField(f) ==
    \/ Len(f) = 2 /\ f[1] = "3" /\ f[2] \in {"0", "1"}
    \/ Len(f) = 2 /\ f[1] \in {"1", "2"} /\ f[2] \in DecimalDigits
    \/ Len(f) = 2 /\ f[1] = "0" /\ f[2] \in NonZeroDigits
    \/ Len(f) = 1 /\ f[1] \in NonZeroDigits
    \/ Len(f) = 2 /\ f[1] = " " /\ f[2] \in NonZeroDigits

\* %H : 2[0-3]|[0-1]\d|\d
HourField(f) ==
    \/ Len(f) = 2 /\ f[1] = "2" /\ f[2] \in {"0", "1", "2", "3"}
    \/ Len(f) = 2 /\ f[1] \in {"0", "1"} /\ f[2] \in DecimalDigits
    \/ Len(f) = 1 /\ f[1] \in DecimalDigits

\* %M : [0-5]\d|\d
MinuteField(f) ==
    \/ Len(f) = 2 /\ f[1] \in {"0", "1", "2", "3", "4", "5"} /\ f[2] \in DecimalDigits
    \/ Len(f) = 1 /\ f[1] \in DecimalDigits

IsLeap(y) == (y % 4 = 0 /\ y % 100 # 0) \/ y % 400 = 0

DaysInMonth(y, m) ==
    IF m = 2 THEN (IF IsLeap(y) THEN 29 ELSE 28)
    ELSE IF m \in {4, 6, 9, 11} THEN 30 ELSE 31

\* datetime.date(y, m, d) accepts the triple
ValidDate(y, m, d) == y >= 1 /\ m \in 1..12 /\ d >= 1 /\ d <= DaysInMonth(y, m)

ParseFailure == [ok |-> FALSE, v |-> <<>>]

\* datetime.strptime(s, "%Y-%m-%d").date() ; ok = FALSE is ValueError
strptime_date(s) ==
    IF Len(s) < 5 \/ ~YearField(SubSeq(s, 1, 4)) \/ s[5] # "-" THEN ParseFailure
    ELSE LET p == find(s, "-", 6)
         IN IF p = 0 \/ ~MonthField(SubSeq(s, 6, p - 1))
               \/ ~DayField(SubSeq(s, p + 1, Len(s)))
            THEN ParseFailure
            ELSE LET y == int(SubSeq(s, 1, 4))
                     m == int(SubSeq(s, 6, p - 1))
                     d == int(SubSeq(s, p + 1, Len(s)))
                 IN IF ValidDate(y, m, d) THEN [ok |-> TRUE, v |-> <<y, m, d>>]
                    ELSE ParseFailure

\* datetime.strptime(s, "%Y-%m-%d %H:%M") ; the blank of the format is \s+
strptime_datetime(s) ==
    IF Len(s) < 5 \/ ~YearField(SubSeq(s, 1, 4)) \/ s[5] # "-" THEN ParseFailure
    ELSE LET p == find(s, "-", 6)
             q == find(s, ":", p + 1)
             w == rfind_space(s, q - 1)
         IN IF p = 0 \/ q = 0 \/ w <= p
               \/ ~MonthField(SubSeq(s, 6, p - 1))
               \/ ~DayField(rstrip(SubSeq(s, p + 1, w)))
               \/ ~HourField(SubSeq(s, w + 1, q - 1))
               \/ ~MinuteField(SubSeq(s, q + 1, Len(s)))
            THEN ParseFailure
            ELSE LET y == int(SubSeq(s, 1, 4))
                     m == int(SubSeq(s, 6, p - 1))
                     d == int(rstrip(SubSeq(s, p + 1, w)))
                     h == int(SubSeq(s, w + 1, q - 1))
                     mi == int(SubSeq(s, q + 1, Len(s)))
                 IN IF ValidDate(y, m, d) THEN [ok |-> TRUE, v |-> <<y, m, d, h, mi>>]
                    ELSE ParseFailure

\* a < b on datetimes <<year, month, day, hour, minute>>
RECURSIVE datetime_lt(_, _)
datetime_lt(a, b) ==
    IF a = <<>> \/ b = <<>> THEN FALSE
    ELSE IF Head(a) # Head(b) THEN Head(a) < Head(b)
    ELSE datetime_lt(Tail(a), Tail(b))

(***************************************************************************)
(* Validation helpers of the routes                                        *)
(***************************************************************************)
\* the length of a cpf
CpfLen == 11

\* variant: at least 11 digits are enough
validar_cpf_minimo(cpf) ==
    IF cpf = <<>> THEN FALSE
    ELSE LET digits == sub_nondigits(cpf)
         IN Len(digits) >= CpfLen /\ isdigit(digits)

\* routes/pacientes.py validar_cpf
validar_cpf(cpf) ==
    IF cpf = <<>> THEN FALSE
    ELSE LET digits == sub_nondigits(cpf)
         IN Len(digits) = CpfLen /\ isdigit(digits)

\* re.match of ^[a-zA-Z0-9._%+-]+@[a-zA-Z0-9.-]+\.[a-zA-Z]{2,}$ ; the $ also
\* matches just before a newline that ends the text
email_pattern(text) ==
    LET s == IF text # <<>> /\ text[Len(text)] = "\n"
             THEN SubSeq(text, 1, Len(text) - 1) ELSE text
    IN \E i \in 2..Len(s) :
        /\ s[i] = "@"
        /\ \A k \in 1..(i - 1) : s[k] \in EmailLocalChars
        /\ \E j \in (i + 2)..(Len(s) - 2) :
              /\ s[j] = "."
              /\ \A k \in (i + 1)..(j - 1) : s[k] \in EmailDomainChars
              /\ \A k \in (j + 1)..Len(s) : s[k] \in Letters

\* routes/pacientes.py validar_email (an empty email is accepted)
validar_email(email) == IF email = <<>> THEN TRUE ELSE email_pattern(email)

\* routes/auth.py validar_email
auth_validar_email(email) == email_pattern(email)

\* routes/pacientes.py validar_telefone
validar_telefone(telefone) ==
    IF telefone = <<>> THEN TRUE
    ELSE LET telefone_limpo == sub_nondigits(telefone)
         IN Len(telefone_limpo) >= 10 /\ Len(telefone_limpo) <= 11

\* routes/auth.py validar_senha (the boolean of the returned pair)
MinSenha == 6
validar_senha(senha) == ~(Len(senha) < MinSenha)

\* werkzeug generate_password_hash / check_password_hash: a salted one-way
\* digest that check_password_hash accepts for exactly the hashed text
generate_password_hash(password) == <<"pbkdf2">> \o password
\* variant: every password is accepted
check_password_hash_qualquer(pwhash, password) == TRUE
check_password_hash(pwhash, password) == pwhash = <<"pbkdf2">> \o password

(***************************************************************************)
(* State                                                                   *)
(***************************************************************************)
VARIABLES
    users,        \* table users: sequence of rows, id = position
    pacientes,    \* table pacientes
    consultas,    \* table consultas
    prontuarios,  \* table prontuarios
    tokens,       \* bearer credentials issued by login (they never expire)
    clock,        \* the wall clock, in minutes after 2031-01-01 10:00
    last,         \* the last request handled and its response
    inflight,     \* requests being handled concurrently, between two steps
    before_delete \* history: per patient, <<to_dict()>> as it was just before the
                  \* latest successful delete (<<>> if none, or updated since)

vars == <<users, pacientes, consultas, prontuarios, tokens, clock, last, inflight,
          before_delete>>
store == <<users, pacientes, consultas, prontuarios>>

NoRequest == [op |-> "none", status |-> 0]

Init ==
    /\ users = <<>>
    /\ pacientes = <<>>
    /\ consultas = <<>>
    /\ prontuarios = <<>>
    /\ tokens = {}
    /\ clock = 0
    /\ last = NoRequest
    /\ inflight = <<>>
    /\ before_delete = <<>>

\* datetime.now() / datetime.utcnow() read at the current clock position
now == <<2031, 1, 1, 10, clock>>

\* time passes between requests
Tick ==
    /\ clock < MaxClock
    /\ clock' = clock + 1
    /\ UNCHANGED <<store, tokens, last, inflight, before_delete>>

Reply(op, req, status, body) ==
    last' = [op |-> op, req |-> req, status |-> status, body |-> body]

NoBody == <<>>

(***************************************************************************)
(* Credentials (flask_jwt_extended)                                        *)
(***************************************************************************)
NoCred == [sig |-> "none", sub |-> 0, username |-> <<>>, tipo_usuario |-> <<>>]
ForgedCred == [sig |-> "bad", sub |-> 1, username |-> <<>>, tipo_usuario |-> <<>>]

\* create_access_token(identity=user.id, additional_claims={...})
create_access_token(id, user) ==
    [sig |-> "good", sub |-> id, username |-> user.username,
     tipo_usuario |-> user.tipo_usuario]

\* variant: only the credential of a doctor is accepted
jwt_required_so_medico(cred) ==
    /\ cred.sig = "good" /\ cred \in tokens
    /\ cred.tipo_usuario = <<"m", "e", "d", "i", "c", "o">>

\* variant: any token presented is accepted, whoever signed it
jwt_required_sem_assinatura(cred) == cred.sig # "none"

\* what a client can put in the Authorization header
Credentials == {NoCred, ForgedCred} \cup tokens

\* @jwt_required(): the signature verifies, i.e. the server issued the token
jwt_required(cred) == cred.sig = "good" /\ cred \in tokens

(***************************************************************************)
(* Queries                                                                 *)
(***************************************************************************)
\* Model.query.get(id) finds a row
Exists(table, id) == id \in 1..Len(table)

\* ids of the rows of a table that satisfy a filter
Ids(table) == 1..Len(table)

Min(set) == CHOOSE x \in set : \A y \in set : x <= y

\* body is {} (or null): "if not data"
\* request.get_json() of the body null: None, which has no members
JsonNullBody == <<>>
is_none(data) == DOMAIN data = {}

not_data(data) == \A k \in DOMAIN data : data[k].t = "absent"

(***************************************************************************)
(* Account service (routes/auth.py)                                        *)
(***************************************************************************)
recepcionista == <<"r", "e", "c", "e", "p", "c", "i", "o", "n", "i", "s", "t", "a">>
MinUsername == 3

\* variant: the email is not looked up before the insert
user_by_email_sem_consulta(email) == {}

\* User.query.filter_by(username=...).first() / filter_by(email=...).first()
user_by_username(username) == {i \in Ids(users) : users[i].username = username}
user_by_email(email) == {i \in Ids(users) : users[i].email = S(email)}

\* register, up to the insert: the status of an early return, or 0 to go on
register_check(data) ==
    IF not_data(data) THEN 400
    ELSE IF Raises(get(data.username)) \/ Raises(get(data.email))
            \/ (data.tipo_usuario.t # "absent" /\ Raises(data.tipo_usuario))
    THEN 500
    ELSE LET username == strip(get(data.username).v)
             password == get(data.password)
             email == strip(get(data.email).v)
         IN IF username = <<>> \/ password.t # "str" \/ password.v = <<>> THEN 400
            ELSE IF Len(username) < MinUsername THEN 400
            ELSE IF ~validar_senha(password.v) THEN 400
            ELSE IF email # <<>> /\ ~auth_validar_email(email) THEN 400
            ELSE IF user_by_username(username) # {} THEN 409
            ELSE IF email # <<>> /\ user_by_email(email) # {} THEN 409
            ELSE 0

\* the row register inserts
register_row(data) ==
    LET email == strip(get(data.email).v)
    IN [username |-> strip(get(data.username).v),
        password |-> generate_password_hash(data.password.v),
        email |-> IF email # <<>> THEN S(email) ELSE Null,
        tipo_usuario |-> IF data.tipo_usuario.t = "absent" THEN recepcionista
                         ELSE strip(data.tipo_usuario.v),
        ativo |-> TRUE]

\* POST /register
register(data) ==
    LET status == register_check(data)
    IN /\ status = 0 => Len(users) < MaxUsers
       /\ IF status # 0
          THEN /\ Reply("register", data, status, NoBody)
               /\ UNCHANGED users
          ELSE /\ users' = Append(users, register_row(data))
               /\ Reply("register", data, 201, Len(users) + 1)
       /\ UNCHANGED <<pacientes, consultas, prontuarios, tokens, clock, inflight, before_delete>>

\* POST /login
login(data) ==
    /\ IF not_data(data) THEN Reply("login", data, 400, NoBody) /\ UNCHANGED tokens
       ELSE IF Raises(get(data.username)) THEN Reply("login", data, 500, NoBody) /\ UNCHANGED tokens
       ELSE LET username == strip(get(data.username).v)
                password == get(data.password)
                found == user_by_username(username)
            IN IF username = <<>> \/ password.t # "str" \/ password.v = <<>>
               THEN Reply("login", data, 400, NoBody) /\ UNCHANGED tokens
               ELSE IF found = {} \/ ~check_password_hash(users[Min(found)].password, password.v)
               THEN Reply("login", data, 401, NoBody) /\ UNCHANGED tokens
               ELSE LET access_token == create_access_token(Min(found), users[Min(found)])
                    IN /\ tokens' = tokens \cup {access_token}
                       /\ Reply("login", data, 200, access_token)
    /\ UNCHANGED <<store, clock, inflight, before_delete>>

\* GET /profile : the account the credential names
get_profile(cred) ==
    /\ IF ~jwt_required(cred)
       THEN Reply("get_profile", [cred |-> cred], 401, NoBody)
       ELSE IF ~Exists(users, cred.sub)
       THEN Reply("get_profile", [cred |-> cred], 404, NoBody)
       ELSE Reply("get_profile", [cred |-> cred], 200,
                  [id |-> cred.sub,
                   username |-> users[cred.sub].username,
                   email |-> users[cred.sub].email,
                   tipo_usuario |-> users[cred.sub].tipo_usuario])
    /\ UNCHANGED <<store, tokens, clock, inflight, before_delete>>

\* variant: the current password is not compared
change_password_check_sem_senha_atual(cred, data) ==
    LET current_password == IF is_none(data) THEN Null ELSE get(data.current_password)
        new_password == IF is_none(data) THEN Null ELSE get(data.new_password)
    IN IF ~Exists(users, cred.sub) THEN 404
       ELSE IF is_none(data) THEN 500
       ELSE IF current_password.t # "str" \/ current_password.v = <<>>
               \/ new_password.t # "str" \/ new_password.v = <<>> THEN 400
       ELSE IF ~validar_senha(new_password.v) THEN 400
       ELSE 0

\* change_password, up to the assignment: the status of an early return, or 0
change_password_check(cred, data) ==
    LET current_password == IF is_none(data) THEN Null ELSE get(data.current_password)
        new_password == IF is_none(data) THEN Null ELSE get(data.new_password)
    IN IF ~Exists(users, cred.sub) THEN 404
       ELSE IF is_none(data) THEN 500
       ELSE IF current_password.t # "str" \/ current_password.v = <<>>
               \/ new_password.t # "str" \/ new_password.v = <<>> THEN 400
       ELSE IF ~check_password_hash(users[cred.sub].password, current_password.v)
       THEN 401
       ELSE IF ~validar_senha(new_password.v) THEN 400
       ELSE 0

\* PUT /change-password
\* variant: a successful change revokes the credentials of the account
change_password_revoga(cred, data) ==
    LET req == [cred |-> cred, data |-> data]
        status == IF jwt_required(cred) THEN change_password_check(cred, data) ELSE 401
    IN /\ IF ~jwt_required(cred)
          THEN Reply("change_password", [cred |-> cred], 401, NoBody)
               /\ UNCHANGED <<users, tokens>>
          ELSE IF status # 0
          THEN Reply("change_password", req, status, NoBody) /\ UNCHANGED <<users, tokens>>
          ELSE /\ users' = [users EXCEPT ![cred.sub].password =
                               generate_password_hash(data.new_password.v)]
               /\ tokens' = {t \in tokens : t.sub # cred.sub}
               /\ Reply("change_password", req, 200, NoBody)
       /\ UNCHANGED <<pacientes, consultas, prontuarios, clock, inflight,
                      before_delete>>

change_password(cred, data) ==
    LET req == [cred |-> cred, data |-> data]
        status == IF jwt_required(cred) THEN change_password_check(cred, data) ELSE 401
    IN /\ IF ~jwt_required(cred)
          THEN Reply("change_password", [cred |-> cred], 401, NoBody) /\ UNCHANGED users
          ELSE IF status # 0
          THEN Reply("change_password", req, status, NoBody) /\ UNCHANGED users
          ELSE /\ users' = [users EXCEPT ![cred.sub].password =
                               generate_password_hash(data.new_password.v)]
               /\ Reply("change_password", req, 200, NoBody)
       /\ UNCHANGED <<pacientes, consultas, prontuarios, tokens, clock, inflight,
                      before_delete>>

(***************************************************************************)
(* Patient service (routes/pacientes.py)                                   *)
(***************************************************************************)
MinNome == 2

\* variant: the duplicate query looks at active patients only
paciente_by_cpf_ativos(cpf) ==
    {i \in Ids(pacientes) : pacientes[i].cpf = cpf /\ pacientes[i].ativo}

\* variant: the email query looks at active patients only
paciente_by_email_ativos(email) ==
    {i \in Ids(pacientes) : pacientes[i].email = S(email) /\ pacientes[i].ativo}

\* Paciente.query.filter_by(cpf=...).first() / filter_by(email=...).first()
paciente_by_cpf(cpf) == {i \in Ids(pacientes) : pacientes[i].cpf = cpf}
paciente_by_email(email) == {i \in Ids(pacientes) : pacientes[i].email = S(email)}

\* variant: the cpf is stored as it was typed
limpar_cpf_como_digitado(cpf) == cpf

\* the cpf create_paciente stores: re.sub(r'\D', '', cpf) of the stripped text
limpar_cpf(cpf) == sub_nondigits(cpf)

\* create_paciente, up to the insert: the status of an early return, or 0
create_paciente_check(data) ==
    IF not_data(data) THEN 400
    ELSE IF \E k \in {"nome", "cpf", "data_nascimento", "endereco", "telefone", "email"} :
               Raises(get(data[k]))
    THEN 500
    ELSE LET nome == strip(get(data.nome).v)
             cpf == strip(get(data.cpf).v)
             data_nascimento == strip(get(data.data_nascimento).v)
             telefone == strip(get(data.telefone).v)
             email == strip(get(data.email).v)
         IN IF nome = <<>> \/ cpf = <<>> THEN 400
            ELSE IF Len(nome) < MinNome THEN 400
            ELSE IF ~validar_cpf(cpf) THEN 400
            ELSE IF paciente_by_cpf(limpar_cpf(cpf)) # {} THEN 409
            ELSE IF email # <<>> /\ ~validar_email(email) THEN 400
            ELSE IF email # <<>> /\ paciente_by_email(email) # {} THEN 409
            ELSE IF telefone # <<>> /\ ~validar_telefone(telefone) THEN 400
            ELSE IF data_nascimento # <<>> /\ ~strptime_date(data_nascimento).ok THEN 400
            ELSE 0

\* the row create_paciente inserts
create_paciente_row(data) ==
    LET data_nascimento == strip(get(data.data_nascimento).v)
        endereco == strip(get(data.endereco).v)
        telefone == strip(get(data.telefone).v)
        email == strip(get(data.email).v)
    IN [nome |-> strip(get(data.nome).v),
        cpf |-> limpar_cpf(strip(get(data.cpf).v)),
        data_nascimento |-> IF data_nascimento # <<>>
                            THEN DateValue(strptime_date(data_nascimento).v) ELSE Null,
        endereco |-> IF endereco # <<>> THEN S(endereco) ELSE Null,
        telefone |-> IF telefone # <<>> THEN S(telefone) ELSE Null,
        email |-> IF email # <<>> THEN S(email) ELSE Null,
        ativo |-> TRUE,
        data_atualizacao |-> clock]

\* the unique constraints of table pacientes accept the table
pacientes_unique(table) ==
    \A i, j \in Ids(table) :
        i # j => /\ table[i].cpf # table[j].cpf
                 /\ (table[i].email # Null => table[i].email # table[j].email)

\* variant: the table has no unique constraint
pacientes_commit_sem_unique(table) == table

\* db.session.add(row); db.session.commit(): the table after the commit, or
\* the table as it was when the commit raises IntegrityError
pacientes_commit(table) == IF pacientes_unique(table) THEN table ELSE pacientes

\* Paciente.to_dict() of a row (creation timestamp left out)
paciente_to_dict(id, row) == [id |-> id] @@ row

\* POST /pacientes
create_paciente(cred, data) ==
    LET req == [cred |-> cred, data |-> data]
        status == create_paciente_check(data)
        inserted == Append(pacientes, create_paciente_row(data))
    IN /\ (jwt_required(cred) /\ status = 0) => Len(pacientes) < MaxPacientes
       /\ IF ~jwt_required(cred)
          THEN Reply("create_paciente", [cred |-> cred], 401, NoBody) /\ UNCHANGED pacientes
          ELSE IF status # 0
          THEN Reply("create_paciente", req, status, NoBody) /\ UNCHANGED pacientes
          ELSE /\ pacientes' = pacientes_commit(inserted)
               /\ IF pacientes_unique(inserted)
                  THEN Reply("create_paciente", req, 201, Len(inserted))
                  ELSE Reply("create_paciente", req, 500, NoBody)
       /\ before_delete' = IF Len(pacientes') > Len(pacientes)
                           THEN Append(before_delete, <<>>) ELSE before_delete
       /\ UNCHANGED <<users, consultas, prontuarios, tokens, clock, inflight>>

\* variant: the active flag is not looked at
get_paciente_sem_ativo(cred, paciente_id) ==
    LET req == [cred |-> cred, paciente_id |-> paciente_id]
    IN /\ IF ~jwt_required(cred)
          THEN Reply("get_paciente", [cred |-> cred], 401, NoBody)
          ELSE IF ~Exists(pacientes, paciente_id)
          THEN Reply("get_paciente", req, 404, NoBody)
          ELSE Reply("get_paciente", req, 200,
                     paciente_to_dict(paciente_id, pacientes[paciente_id]))
       /\ UNCHANGED <<store, tokens, clock, inflight, before_delete>>

\* GET /pacientes/<id>
get_paciente(cred, paciente_id) ==
    LET req == [cred |-> cred, paciente_id |-> paciente_id]
    IN /\ IF ~jwt_required(cred)
          THEN Reply("get_paciente", [cred |-> cred], 401, NoBody)
          ELSE IF ~Exists(pacientes, paciente_id) \/ ~pacientes[paciente_id].ativo
          THEN Reply("get_paciente", req, 404, NoBody)
          ELSE Reply("get_paciente", req, 200,
                     paciente_to_dict(paciente_id, pacientes[paciente_id]))
       /\ UNCHANGED <<store, tokens, clock, inflight, before_delete>>

\* variant: the row of the most recent patient is removed from the table
delete_paciente_remove_linha(cred, paciente_id) ==
    LET req == [cred |-> cred, paciente_id |-> paciente_id]
    IN /\ IF ~jwt_required(cred)
          THEN Reply("delete_paciente", [cred |-> cred], 401, NoBody) /\ UNCHANGED pacientes
          ELSE IF ~Exists(pacientes, paciente_id) \/ ~pacientes[paciente_id].ativo
          THEN Reply("delete_paciente", req, 404, NoBody) /\ UNCHANGED pacientes
          ELSE /\ pacientes' = IF paciente_id = Len(pacientes)
                               THEN SubSeq(pacientes, 1, Len(pacientes) - 1)
                               ELSE [pacientes EXCEPT ![paciente_id].ativo = FALSE,
                                                      ![paciente_id].data_atualizacao = clock]
               /\ Reply("delete_paciente", req, 200, NoBody)
       /\ UNCHANGED <<users, consultas, prontuarios, tokens, clock, inflight, before_delete>>

\* variant: the email of a deactivated patient is given up
delete_paciente_libera_email(cred, paciente_id) ==
    LET req == [cred |-> cred, paciente_id |-> paciente_id]
    IN /\ IF ~jwt_required(cred)
          THEN Reply("delete_paciente", [cred |-> cred], 401, NoBody) /\ UNCHANGED pacientes
          ELSE IF ~Exists(pacientes, paciente_id) \/ ~pacientes[paciente_id].ativo
          THEN Reply("delete_paciente", req, 404, NoBody) /\ UNCHANGED pacientes
          ELSE /\ pacientes' = [pacientes EXCEPT ![paciente_id].ativo = FALSE,
                                                 ![paciente_id].email = Null,
                                                 ![paciente_id].data_atualizacao = clock]
               /\ Reply("delete_paciente", req, 200, NoBody)
       /\ UNCHANGED <<users, consultas, prontuarios, tokens, clock, inflight, before_delete>>

\* DELETE /pacientes/<id>
delete_paciente(cred, paciente_id) ==
    LET req == [cred |-> cred, paciente_id |-> paciente_id]
    IN /\ IF ~jwt_required(cred)
          THEN Reply("delete_paciente", [cred |-> cred], 401, NoBody) /\ UNCHANGED pacientes
          ELSE IF ~Exists(pacientes, paciente_id) \/ ~pacientes[paciente_id].ativo
          THEN Reply("delete_paciente", req, 404, NoBody) /\ UNCHANGED pacientes
          ELSE /\ pacientes' = [pacientes EXCEPT ![paciente_id].ativo = FALSE,
                                                 ![paciente_id].data_atualizacao = clock]
               /\ Reply("delete_paciente", req, 200, NoBody)
       /\ before_delete' = IF pacientes' # pacientes
                           THEN [before_delete EXCEPT ![paciente_id] =
                                    <<paciente_to_dict(paciente_id, pacientes[paciente_id])>>]
                           ELSE before_delete
       /\ UNCHANGED <<users, consultas, prontuarios, tokens, clock, inflight>>

\* PUT /pacientes/<id>/reativar
reativar_paciente(cred, paciente_id) ==
    LET req == [cred |-> cred, paciente_id |-> paciente_id]
    IN /\ IF ~jwt_required(cred)
          THEN Reply("reativar_paciente", [cred |-> cred], 401, NoBody) /\ UNCHANGED pacientes
          ELSE IF ~Exists(pacientes, paciente_id)
          THEN Reply("reativar_paciente", req, 404, NoBody) /\ UNCHANGED pacientes
          ELSE IF pacientes[paciente_id].ativo
          THEN Reply("reativar_paciente", req, 400, NoBody) /\ UNCHANGED pacientes
          ELSE /\ pacientes' = [pacientes EXCEPT ![paciente_id].ativo = TRUE,
                                                 ![paciente_id].data_atualizacao = clock]
               /\ Reply("reativar_paciente", req, 200,
                        paciente_to_dict(paciente_id, pacientes'[paciente_id]))
       /\ UNCHANGED <<users, consultas, prontuarios, tokens, clock, inflight, before_delete>>

\* str.lower() on the letters of the model
UpperSeq == <<"A", "B", "C", "D", "E", "F", "G", "H", "I", "J", "K", "L", "M",
              "N", "O", "P", "Q", "R", "S", "T", "U", "V", "W", "X", "Y", "Z">>
LowerSeq == <<"a", "b", "c", "d", "e", "f", "g", "h", "i", "j", "k", "l", "m",
              "n", "o", "p", "q", "r", "s", "t", "u", "v", "w", "x", "y", "z">>
lower(c) == IF c \in UpperLetters
            THEN LowerSeq[CHOOSE i \in 1..26 : UpperSeq[i] = c] ELSE c

\* SQL LIKE, case-insensitive: % is any run of characters, _ any one character
RECURSIVE like(_, _)
like(text, pattern) ==
    IF pattern = <<>> THEN text = <<>>
    ELSE IF Head(pattern) = "%"
    THEN like(text, Tail(pattern)) \/ (text # <<>> /\ like(Tail(text), pattern))
    ELSE IF text = <<>> THEN FALSE
    ELSE /\ Head(pattern) = "_" \/ lower(Head(pattern)) = lower(Head(text))
         /\ like(Tail(text), Tail(pattern))

\* the ids a filter keeps, in id order
RECURSIVE ordered(_, _)
ordered(ids, n) ==
    IF n = 0 THEN <<>>
    ELSE IF n \in ids THEN Append(ordered(ids, n - 1), n) ELSE ordered(ids, n - 1)

MaxPerPage == 100

\* query.paginate(page, per_page, error_out=False).items: with error_out
\* off, a page below 1 becomes 1 and a per_page below 1 becomes 20
paginate(rows, page, per_page) ==
    LET pg == IF page < 1 THEN 1 ELSE page
        pp == IF per_page < 1 THEN 20 ELSE per_page
        first == (pg - 1) * pp + 1
        final == IF pg * pp < Len(rows) THEN pg * pp ELSE Len(rows)
    IN SubSeq(rows, first, final)

\* GET /pacientes
get_pacientes(cred, page, per_page, search) ==
    LET req == [cred |-> cred, page |-> page, per_page |-> per_page, search |-> search]
        capped == IF per_page < MaxPerPage THEN per_page ELSE MaxPerPage
        term == strip(search)
        search_filter == <<"%">> \o term \o <<"%">>
        matching == {i \in Ids(pacientes) :
                        /\ pacientes[i].ativo
                        /\ term # <<>> => \/ like(pacientes[i].nome, search_filter)
                                          \/ like(pacientes[i].cpf, search_filter)}
        rows == ordered(matching, Len(pacientes))
        items == paginate(rows, page, capped)
    IN /\ IF ~jwt_required(cred)
          THEN Reply("get_pacientes", [cred |-> cred], 401, NoBody)
          ELSE Reply("get_pacientes", req, 200,
                     [pacientes |-> [k \in 1..Len(items) |->
                                        paciente_to_dict(items[k], pacientes[items[k]])],
                      total |-> Len(rows)])
       /\ UNCHANGED <<store, tokens, clock, inflight, before_delete>>

\* variant: an inactive patient is found too
paciente_editavel_inativo(paciente_id) == Exists(pacientes, paciente_id)

\* update_paciente: "if not paciente or not paciente.ativo" is false
paciente_editavel(paciente_id) ==
    Exists(pacientes, paciente_id) /\ pacientes[paciente_id].ativo

\* update_paciente: one "if key in data" block each; st = 0 means go on
\* variant: a cpf in the body is written to the patient as well
upd_nome_e_cpf(data, r) ==
    LET c == IF data.cpf.t = "str" THEN [r EXCEPT !.cpf = sub_nondigits(data.cpf.v)] ELSE r
    IN IF data.nome.t = "absent" THEN [st |-> 0, row |-> c]
       ELSE IF Raises(data.nome) THEN [st |-> 500, row |-> r]
       ELSE IF Len(strip(data.nome.v)) < MinNome THEN [st |-> 400, row |-> r]
       ELSE [st |-> 0, row |-> [c EXCEPT !.nome = strip(data.nome.v)]]

upd_nome(data, r) ==
    IF data.nome.t = "absent" THEN [st |-> 0, row |-> r]
    ELSE IF Raises(data.nome) THEN [st |-> 500, row |-> r]
    ELSE IF Len(strip(data.nome.v)) < MinNome THEN [st |-> 400, row |-> r]
    ELSE [st |-> 0, row |-> [r EXCEPT !.nome = strip(data.nome.v)]]

upd_data_nascimento(data, r) ==
    IF data.data_nascimento.t = "absent" THEN [st |-> 0, row |-> r]
    ELSE IF Raises(data.data_nascimento) THEN [st |-> 500, row |-> r]
    ELSE LET data_nascimento == strip(data.data_nascimento.v)
         IN IF data_nascimento = <<>>
            THEN [st |-> 0, row |-> [r EXCEPT !.data_nascimento = Null]]
            ELSE IF ~strptime_date(data_nascimento).ok THEN [st |-> 400, row |-> r]
            ELSE [st |-> 0, row |-> [r EXCEPT !.data_nascimento =
                                        DateValue(strptime_date(data_nascimento).v)]]

\* data["endereco"].strip() if data["endereco"] else None
upd_endereco(data, r) ==
    IF data.endereco.t = "absent" THEN [st |-> 0, row |-> r]
    ELSE IF data.endereco.t = "null" \/ data.endereco.v = <<>>
    THEN [st |-> 0, row |-> [r EXCEPT !.endereco = Null]]
    ELSE [st |-> 0, row |-> [r EXCEPT !.endereco = S(strip(data.endereco.v))]]

upd_telefone(data, r) ==
    IF data.telefone.t = "absent" THEN [st |-> 0, row |-> r]
    ELSE IF Raises(data.telefone) THEN [st |-> 500, row |-> r]
    ELSE LET telefone == strip(data.telefone.v)
         IN IF telefone # <<>> /\ ~validar_telefone(telefone) THEN [st |-> 400, row |-> r]
            ELSE [st |-> 0, row |-> [r EXCEPT !.telefone =
                                        IF telefone # <<>> THEN S(telefone) ELSE Null]]

upd_email(data, r, paciente_id) ==
    IF data.email.t = "absent" THEN [st |-> 0, row |-> r]
    ELSE IF Raises(data.email) THEN [st |-> 500, row |-> r]
    ELSE LET email == strip(data.email.v)
             existing == paciente_by_email(email)
         IN IF email # <<>> /\ ~validar_email(email) THEN [st |-> 400, row |-> r]
            ELSE IF email # <<>> /\ existing # {} /\ Min(existing) # paciente_id
            THEN [st |-> 409, row |-> r]
            ELSE [st |-> 0, row |-> [r EXCEPT !.email =
                                        IF email # <<>> THEN S(email) ELSE Null]]

\* the blocks in source order, stopping at the first early return
update_paciente_fields(data, paciente_id) ==
    LET r1 == upd_nome(data, pacientes[paciente_id])
        r2 == IF r1.st # 0 THEN r1 ELSE upd_data_nascimento(data, r1.row)
        r3 == IF r2.st # 0 THEN r2 ELSE upd_endereco(data, r2.row)
        r4 == IF r3.st # 0 THEN r3 ELSE upd_telefone(data, r3.row)
    IN IF r4.st # 0 THEN r4 ELSE upd_email(data, r4.row, paciente_id)

\* variant: the session outlives the request and its pending changes reach
\* the database with the next commit
shutdown_session_sem_remove(committed, pending) == pending

\* end of a request that returned without commit or rollback: the teardown
\* of Flask-SQLAlchemy removes the session, and what it held is rolled back
shutdown_session(committed, pending) == committed

\* PUT /pacientes/<id> ; an early return leaves the session to be discarded
\* at the end of the request, a commit that changes a column runs onupdate
update_paciente(cred, paciente_id, data) ==
    LET req == [cred |-> cred, paciente_id |-> paciente_id, data |-> data]
    IN /\ IF ~jwt_required(cred)
          THEN Reply("update_paciente", [cred |-> cred], 401, NoBody) /\ UNCHANGED pacientes
          ELSE IF ~paciente_editavel(paciente_id)
          THEN Reply("update_paciente", req, 404, NoBody) /\ UNCHANGED pacientes
          ELSE IF not_data(data)
          THEN Reply("update_paciente", req, 400, NoBody) /\ UNCHANGED pacientes
          ELSE LET r == update_paciente_fields(data, paciente_id)
                   row == IF r.row = pacientes[paciente_id] THEN r.row
                          ELSE [r.row EXCEPT !.data_atualizacao = clock]
               IN IF r.st = 500
                  THEN Reply("update_paciente", req, 500, NoBody) /\ UNCHANGED pacientes
                  ELSE IF r.st # 0
                  THEN /\ Reply("update_paciente", req, r.st, NoBody)
                       /\ pacientes' = shutdown_session(pacientes,
                              [pacientes EXCEPT ![paciente_id] = r.row])
                  ELSE /\ pacientes' = [pacientes EXCEPT ![paciente_id] = row]
                       /\ Reply("update_paciente", req, 200,
                                paciente_to_dict(paciente_id, row))
       /\ before_delete' = IF last'.status = 200
                           THEN [before_delete EXCEPT ![paciente_id] = <<>>]
                           ELSE before_delete
       /\ UNCHANGED <<users, consultas, prontuarios, tokens, clock, inflight>>

(***************************************************************************)
(* Appointment and visit-note service (routes/consultas.py)                *)
(***************************************************************************)
agendada == <<"a", "g", "e", "n", "d", "a", "d", "a">>
realizada == <<"r", "e", "a", "l", "i", "z", "a", "d", "a">>
cancelada == <<"c", "a", "n", "c", "e", "l", "a", "d", "a">>
presencial == <<"p", "r", "e", "s", "e", "n", "c", "i", "a", "l">>
telemedicina == <<"t", "e", "l", "e", "m", "e", "d", "i", "c", "i", "n", "a">>

\* "if not data" for a body whose ids are numbers (0: member missing or zero)
not_data_consulta(data) ==
    /\ data.paciente_id = 0 /\ data.medico_id = 0
    /\ \A k \in {"data_consulta", "tipo_consulta", "observacoes"} : data[k].t = "absent"

\* variant: the conflict query without the status filter
consulta_existente_qualquer_status(medico_id, data_consulta) ==
    {i \in Ids(consultas) : /\ consultas[i].medico_id = medico_id
                            /\ consultas[i].data_consulta = data_consulta}

\* Consulta.query.filter_by(medico_id=, data_consulta=, status='agendada')
consulta_existente(medico_id, data_consulta) ==
    {i \in Ids(consultas) : /\ consultas[i].medico_id = medico_id
                            /\ consultas[i].data_consulta = data_consulta
                            /\ consultas[i].status = agendada}

\* variant: a patient who was deactivated can still be booked
create_consulta_check_paciente_inativo(data) ==
    IF not_data_consulta(data) THEN 400
    ELSE IF \/ Raises(get(data.data_consulta))
            \/ (data.tipo_consulta.t # "absent" /\ Raises(data.tipo_consulta))
            \/ Raises(get(data.observacoes))
    THEN 500
    ELSE LET data_consulta_str == strip(get(data.data_consulta).v)
             tipo_consulta == IF data.tipo_consulta.t = "absent" THEN presencial
                              ELSE strip(data.tipo_consulta.v)
             parsed == strptime_datetime(data_consulta_str)
         IN IF data.paciente_id = 0 \/ data.medico_id = 0 \/ data_consulta_str = <<>>
            THEN 400
            ELSE IF ~Exists(pacientes, data.paciente_id) THEN 404
            ELSE IF ~Exists(users, data.medico_id) THEN 404
            ELSE IF tipo_consulta \notin {presencial, telemedicina} THEN 400
            ELSE IF ~parsed.ok THEN 400
            ELSE IF datetime_lt(parsed.v, now) THEN 400
            ELSE IF consulta_existente(data.medico_id, parsed.v) # {} THEN 409
            ELSE 0

\* create_consulta, up to the insert: the status of an early return, or 0
create_consulta_check(data) ==
    IF not_data_consulta(data) THEN 400
    ELSE IF \/ Raises(get(data.data_consulta))
            \/ (data.tipo_consulta.t # "absent" /\ Raises(data.tipo_consulta))
            \/ Raises(get(data.observacoes))
    THEN 500
    ELSE LET data_consulta_str == strip(get(data.data_consulta).v)
             tipo_consulta == IF data.tipo_consulta.t = "absent" THEN presencial
                              ELSE strip(data.tipo_consulta.v)
             parsed == strptime_datetime(data_consulta_str)
         IN IF data.paciente_id = 0 \/ data.medico_id = 0 \/ data_consulta_str = <<>>
            THEN 400
            ELSE IF ~Exists(pacientes, data.paciente_id)
                    \/ ~pacientes[data.paciente_id].ativo THEN 404
            ELSE IF ~Exists(users, data.medico_id) THEN 404
            ELSE IF tipo_consulta \notin {presencial, telemedicina} THEN 400
            ELSE IF ~parsed.ok THEN 400
            ELSE IF datetime_lt(parsed.v, now) THEN 400
            ELSE IF consulta_existente(data.medico_id, parsed.v) # {} THEN 409
            ELSE 0

\* the row create_consulta inserts (status takes the column default)
create_consulta_row(data) ==
    LET observacoes == strip(get(data.observacoes).v)
    IN [paciente_id |-> data.paciente_id,
        medico_id |-> data.medico_id,
        data_consulta |-> strptime_datetime(strip(get(data.data_consulta).v)).v,
        tipo_consulta |-> IF data.tipo_consulta.t = "absent" THEN presencial
                          ELSE strip(data.tipo_consulta.v),
        status |-> agendada,
        observacoes |-> IF observacoes # <<>> THEN S(observacoes) ELSE Null]

\* variant: a unique constraint on (medico_id, data_consulta) rejects the row
consultas_commit_unico(table, row) ==
    IF \E i \in 1..Len(table) : /\ table[i].medico_id = row.medico_id
                                /\ table[i].data_consulta = row.data_consulta
    THEN table ELSE Append(table, row)

\* db.session.add(new_consulta); db.session.commit(): table consultas has no
\* unique constraint, the row is always accepted
consultas_commit(table, row) == Append(table, row)

\* POST /consultas
create_consulta(cred, data) ==
    LET req == [cred |-> cred, data |-> data]
        status == create_consulta_check(data)
    IN /\ (jwt_required(cred) /\ status = 0) => Len(consultas) < MaxConsultas
       /\ IF ~jwt_required(cred)
          THEN Reply("create_consulta", [cred |-> cred], 401, NoBody) /\ UNCHANGED consultas
          ELSE IF status # 0
          THEN Reply("create_consulta", req, status, NoBody) /\ UNCHANGED consultas
          ELSE /\ consultas' = consultas_commit(consultas, create_consulta_row(data))
               /\ Reply("create_consulta", req, 201, Len(consultas) + 1)
       /\ UNCHANGED <<users, pacientes, prontuarios, tokens, clock, inflight, before_delete>>

\* variant: only an appointment that is 'agendada' may change status
update_consulta_status_so_de_agendada(cred, consulta_id, data) ==
    LET req == [cred |-> cred, consulta_id |-> consulta_id, data |-> data]
    IN /\ IF ~jwt_required(cred)
          THEN Reply("update_consulta_status", [cred |-> cred], 401, NoBody) /\ UNCHANGED consultas
          ELSE IF ~Exists(consultas, consulta_id)
          THEN Reply("update_consulta_status", req, 404, NoBody) /\ UNCHANGED consultas
          ELSE IF not_data(data)
          THEN Reply("update_consulta_status", req, 400, NoBody) /\ UNCHANGED consultas
          ELSE IF Raises(data.status)
          THEN Reply("update_consulta_status", req, 500, NoBody) /\ UNCHANGED consultas
          ELSE IF strip(data.status.v) \notin {agendada, realizada, cancelada}
                  \/ consultas[consulta_id].status # agendada
          THEN Reply("update_consulta_status", req, 400, NoBody) /\ UNCHANGED consultas
          ELSE /\ consultas' = [consultas EXCEPT ![consulta_id].status = strip(data.status.v)]
               /\ Reply("update_consulta_status", req, 200, consultas'[consulta_id])
       /\ UNCHANGED <<users, pacientes, prontuarios, tokens, clock, inflight, before_delete>>

\* PUT /consultas/<id>/status
update_consulta_status(cred, consulta_id, data) ==
    LET req == [cred |-> cred, consulta_id |-> consulta_id, data |-> data]
    IN /\ IF ~jwt_required(cred)
          THEN Reply("update_consulta_status", [cred |-> cred], 401, NoBody) /\ UNCHANGED consultas
          ELSE IF ~Exists(consultas, consulta_id)
          THEN Reply("update_consulta_status", req, 404, NoBody) /\ UNCHANGED consultas
          ELSE IF not_data(data)
          THEN Reply("update_consulta_status", req, 400, NoBody) /\ UNCHANGED consultas
          ELSE IF Raises(data.status)
          THEN Reply("update_consulta_status", req, 500, NoBody) /\ UNCHANGED consultas
          ELSE IF strip(data.status.v) \notin {agendada, realizada, cancelada}
          THEN Reply("update_consulta_status", req, 400, NoBody) /\ UNCHANGED consultas
          ELSE /\ consultas' = [consultas EXCEPT ![consulta_id].status = strip(data.status.v)]
               /\ Reply("update_consulta_status", req, 200, consultas'[consulta_id])
       /\ UNCHANGED <<users, pacientes, prontuarios, tokens, clock, inflight, before_delete>>

\* consulta.prontuario: the notes whose consulta_id is the appointment
prontuario_of(consulta_id) == {i \in Ids(prontuarios) : prontuarios[i].consulta_id = consulta_id}

NoteKeys == {"diagnostico", "prescricao", "exames_solicitados", "observacoes_medicas"}

\* variant: the "already has a note" check left out
create_prontuario_check_sem_conflito(consulta_id, data) ==
    IF ~Exists(consultas, consulta_id) THEN 404
    ELSE IF not_data(data) THEN 400
    ELSE IF \E k \in NoteKeys : Raises(get(data[k])) THEN 500
    ELSE 0

\* create_prontuario, up to the insert: the status of an early return, or 0
create_prontuario_check(consulta_id, data) ==
    IF ~Exists(consultas, consulta_id) THEN 404
    ELSE IF prontuario_of(consulta_id) # {} THEN 409
    ELSE IF not_data(data) THEN 400
    ELSE IF \E k \in NoteKeys : Raises(get(data[k])) THEN 500
    ELSE 0

\* the row create_prontuario inserts
create_prontuario_row(consulta_id, data) ==
    [k \in NoteKeys |-> IF strip(get(data[k]).v) # <<>> THEN S(strip(get(data[k]).v))
                        ELSE Null]
    @@ [consulta_id |-> consulta_id]

\* variant: a unique constraint on consulta_id rejects a second note
prontuarios_commit_unico(table, row) ==
    IF \E i \in 1..Len(table) : table[i].consulta_id = row.consulta_id
    THEN table ELSE Append(table, row)

\* table prontuarios has no unique constraint on consulta_id
prontuarios_commit(table, row) == Append(table, row)

\* variant: the note is inserted and the status assignment is lost
create_prontuario_commit_sem_status(consulta_id, data) ==
    /\ prontuarios' = Append(prontuarios, create_prontuario_row(consulta_id, data))
    /\ consultas' = consultas

\* db.session.add(new_prontuario); consulta.status = 'realizada'; commit()
create_prontuario_commit(consulta_id, data) ==
    /\ prontuarios' = prontuarios_commit(prontuarios,
                                         create_prontuario_row(consulta_id, data))
    /\ consultas' = [consultas EXCEPT ![consulta_id].status = realizada]

\* POST /consultas/<id>/prontuario
create_prontuario(cred, consulta_id, data) ==
    LET req == [cred |-> cred, consulta_id |-> consulta_id, data |-> data]
        status == create_prontuario_check(consulta_id, data)
    IN /\ (jwt_required(cred) /\ status = 0) => Len(prontuarios) < MaxProntuarios
       /\ IF ~jwt_required(cred)
          THEN Reply("create_prontuario", [cred |-> cred], 401, NoBody)
               /\ UNCHANGED <<prontuarios, consultas>>
          ELSE IF status # 0
          THEN Reply("create_prontuario", req, status, NoBody)
               /\ UNCHANGED <<prontuarios, consultas>>
          ELSE /\ create_prontuario_commit(consulta_id, data)
               /\ last' = [op |-> "create_prontuario", req |-> req, status |-> 201,
                           body |-> Len(prontuarios) + 1,
                           status_anterior |-> consultas[consulta_id].status]
       /\ UNCHANGED <<users, pacientes, tokens, clock, inflight, before_delete>>

\* data[key].strip() if data[key] else None, for a key that is in the body
note_value(member) ==
    IF member.t = "null" \/ member.v = <<>> THEN Null ELSE S(strip(member.v))

\* PUT /prontuarios/<id>
update_prontuario(cred, prontuario_id, data) ==
    LET req == [cred |-> cred, prontuario_id |-> prontuario_id, data |-> data]
    IN /\ IF ~jwt_required(cred)
          THEN Reply("update_prontuario", [cred |-> cred], 401, NoBody) /\ UNCHANGED prontuarios
          ELSE IF ~Exists(prontuarios, prontuario_id)
          THEN Reply("update_prontuario", req, 404, NoBody) /\ UNCHANGED prontuarios
          ELSE IF not_data(data)
          THEN Reply("update_prontuario", req, 400, NoBody) /\ UNCHANGED prontuarios
          ELSE /\ prontuarios' = [prontuarios EXCEPT ![prontuario_id] =
                     [k \in DOMAIN @ |->
                         IF k \in NoteKeys /\ data[k].t # "absent"
                         THEN note_value(data[k]) ELSE @[k]]]
               /\ Reply("update_prontuario", req, 200, prontuarios'[prontuario_id])
       /\ UNCHANGED <<users, pacientes, consultas, tokens, clock, inflight, before_delete>>

\* Consulta.to_dict()
consulta_to_dict(id, row) == [id |-> id] @@ row

\* GET /consultas/<id> : the appointment with its patient, its provider and,
\* when there is one, its note
get_consulta(cred, consulta_id) ==
    LET req == [cred |-> cred, consulta_id |-> consulta_id]
    IN /\ IF ~jwt_required(cred)
          THEN Reply("get_consulta", [cred |-> cred], 401, NoBody)
          ELSE IF ~Exists(consultas, consulta_id)
          THEN Reply("get_consulta", req, 404, NoBody)
          ELSE LET consulta == consultas[consulta_id]
                   medico == users[consulta.medico_id]
                   notes == prontuario_of(consulta_id)
               IN Reply("get_consulta", req, 200,
                        [consulta |-> consulta_to_dict(consulta_id, consulta),
                         paciente |-> paciente_to_dict(consulta.paciente_id,
                                                       pacientes[consulta.paciente_id]),
                         medico |-> [id |-> consulta.medico_id,
                                     username |-> medico.username,
                                     email |-> medico.email],
                         prontuario |-> IF notes = {} THEN <<>>
                                        ELSE <<prontuarios[Min(notes)]>>])
       /\ UNCHANGED <<store, tokens, clock, inflight, before_delete>>

\* datetime(y, m, d) + timedelta(days=1)
MaxYear == 9999

\* ok = FALSE is OverflowError: no date follows the last day of MaxYear
next_day(ymd) ==
    IF ymd[3] < DaysInMonth(ymd[1], ymd[2])
    THEN [ok |-> TRUE, v |-> <<ymd[1], ymd[2], ymd[3] + 1>>]
    ELSE IF ymd[2] < 12 THEN [ok |-> TRUE, v |-> <<ymd[1], ymd[2] + 1, 1>>]
    ELSE IF ymd[1] < MaxYear THEN [ok |-> TRUE, v |-> <<ymd[1] + 1, 1, 1>>]
    ELSE [ok |-> FALSE, v |-> <<>>]

\* order_by(Consulta.data_consulta.desc()): the orders of the rows a query may
\* return; rows with the same date come in an order the database chooses
order_by_data_consulta_desc(ids) ==
    {rows \in [1..Cardinality(ids) -> ids] :
        /\ \A k, l \in DOMAIN rows : k # l => rows[k] # rows[l]
        /\ \A k, l \in DOMAIN rows : k < l =>
              ~datetime_lt(consultas[rows[k]].data_consulta,
                           consultas[rows[l]].data_consulta)}

\* GET /consultas ; a filter id of 0 stands for a parameter that is not sent
get_consultas(cred, page, per_page, paciente_id, medico_id, status, data_inicio, data_fim) ==
    LET req == [cred |-> cred, page |-> page, per_page |-> per_page,
                paciente_id |-> paciente_id, medico_id |-> medico_id,
                status |-> status, data_inicio |-> data_inicio, data_fim |-> data_fim]
        capped == IF per_page < MaxPerPage THEN per_page ELSE MaxPerPage
        estado == strip(status)
        inicio == strptime_date(strip(data_inicio))
        fim == strptime_date(strip(data_fim))
        matching == {i \in Ids(consultas) :
            /\ paciente_id # 0 => consultas[i].paciente_id = paciente_id
            /\ medico_id # 0 => consultas[i].medico_id = medico_id
            /\ estado \in {agendada, realizada, cancelada} => consultas[i].status = estado
            /\ (strip(data_inicio) # <<>> /\ inicio.ok) =>
                  ~datetime_lt(consultas[i].data_consulta, inicio.v \o <<0, 0>>)
            /\ (strip(data_fim) # <<>> /\ fim.ok) =>
                  datetime_lt(consultas[i].data_consulta, next_day(fim.v).v \o <<0, 0>>)}
    IN /\ IF ~jwt_required(cred)
          THEN Reply("get_consultas", [cred |-> cred], 401, NoBody)
          ELSE IF strip(data_inicio) # <<>> /\ ~inicio.ok
          THEN Reply("get_consultas", req, 400, NoBody)
          ELSE IF strip(data_fim) # <<>> /\ ~fim.ok
          THEN Reply("get_consultas", req, 400, NoBody)
          ELSE IF strip(data_fim) # <<>> /\ ~next_day(fim.v).ok
          THEN Reply("get_consultas", req, 500, NoBody)
          ELSE \E rows \in order_by_data_consulta_desc(matching) :
                 LET items == paginate(rows, page, capped)
                 IN Reply("get_consultas", req, 200,
                          [consultas |-> [k \in 1..Len(items) |->
                               consulta_to_dict(items[k], consultas[items[k]])
                               @@ [paciente_nome |->
                                       pacientes[consultas[items[k]].paciente_id].nome,
                                   medico_nome |->
                                       users[consultas[items[k]].medico_id].username]],
                           total |-> Len(rows)])
       /\ UNCHANGED <<store, tokens, clock, inflight, before_delete>>

(***************************************************************************)
(* Routes of main.py                                                       *)
(***************************************************************************)
\* GET /api/status : no @jwt_required(), the credential is not read
api_status(cred) ==
    /\ Reply("api_status", [cred |-> cred], 200, "online")
    /\ UNCHANGED <<store, tokens, clock, inflight, before_delete>>

\* GET / and GET /<path> : no @jwt_required(); the file at the path, else
\* index.html, of the static folder is sent, and 404 is answered when the
\* folder holds neither (found is what os.path.exists tells)
serve(cred, found) ==
    /\ Reply("serve", [cred |-> cred], IF found THEN 200 ELSE 404, NoBody)
    /\ UNCHANGED <<store, tokens, clock, inflight, before_delete>>

(***************************************************************************)
(* Request texts                                                           *)
(***************************************************************************)
Txt_dra == <<"d", "r", "a">>
Txt_bob == <<"b", "o", "b">>
Txt_senha1 == <<"s", "e", "n", "h", "a", "1">>
Txt_errada == <<"e", "r", "r", "a", "d", "a">>
Txt_medico == <<"m", "e", "d", "i", "c", "o">>
Txt_Ana == <<"A", "n", "a">>
Txt_Bia == <<"B", "i", "a">>
Cpf_formatado == <<"1", "2", "3", ".", "4", "5", "6", ".", "7", "8", "9", "-", "0", "1">>
Dc_1001 == <<"2", "0", "3", "1", "-", "0", "1", "-", "0", "1", " ", "1", "0", ":", "0", "1">>
Dc_1001_curta == <<"2", "0", "3", "1", "-", "1", "-", "1", "\t", " ", "1", "0", ":", "1">>
Dc_1002 == <<"2", "0", "3", "1", "-", "0", "1", "-", "0", "1", " ", "1", "0", ":", "0", "2">>
Dc_passada == <<"2", "0", "3", "0", "-", "1", "2", "-", "3", "1", " ", "2", "3", ":", "5", "9">>
Dc_invalida == <<"2", "0", "3", "1", "-", "0", "2", "-", "3", "0", " ", "1", "0", ":", "0", "0">>
Txt_online == <<"o", "n", "l", "i", "n", "e">>
Txt_feita == <<"f", "e", "i", "t", "a">>
Txt_gripe == <<"g", "r", "i", "p", "e">>
Txt_repouso == <<"r", "e", "p", "o", "u", "s", "o">>

(***************************************************************************)
(* Spec: every request runs to completion before the next one starts       *)
(***************************************************************************)
RegisterBody(username, password, email, tipo_usuario) ==
    [username |-> username, password |-> password, email |-> email,
     tipo_usuario |-> tipo_usuario]
LoginBody(username, password) == [username |-> username, password |-> password]
PacienteBody(nome, cpf, data_nascimento, endereco, telefone, email) ==
    [nome |-> nome, cpf |-> cpf, data_nascimento |-> data_nascimento,
     endereco |-> endereco, telefone |-> telefone, email |-> email]
ConsultaBody(paciente_id, medico_id, data_consulta, tipo_consulta, observacoes) ==
    [paciente_id |-> paciente_id, medico_id |-> medico_id,
     data_consulta |-> data_consulta, tipo_consulta |-> tipo_consulta,
     observacoes |-> observacoes]
StatusBody(status) == [status |-> status]
NoteBody(diagnostico, prescricao, exames_solicitados, observacoes_medicas) ==
    [diagnostico |-> diagnostico, prescricao |-> prescricao,
     exames_solicitados |-> exames_solicitados,
     observacoes_medicas |-> observacoes_medicas]

RegisterInputs ==
    {RegisterBody(S(Txt_dra), S(Txt_senha1), Absent, S(Txt_medico))}
LoginInputs ==
    {LoginBody(S(Txt_dra), S(Txt_senha1)), LoginBody(S(Txt_dra), S(Txt_errada))}
CredInputs == {NoCred} \cup tokens
PacienteInputs ==
    {PacienteBody(S(Txt_Ana), S(Cpf_formatado), Absent, Absent, Absent, Absent)}
ConsultaInputs ==
    {ConsultaBody(1, 1, S(d), Absent, Absent) :
        d \in {Dc_1001, Dc_1001_curta, Dc_1002, Dc_passada, Dc_invalida}}
    \cup {ConsultaBody(1, 2, S(Dc_1001), Absent, Absent)}
StatusInputs == {StatusBody(S(agendada)), StatusBody(S(realizada)), StatusBody(S(cancelada))}
NoteInputs == {NoteBody(S(Txt_gripe), Absent, Absent, Absent)}
NoteUpdates == {NoteBody(Absent, S(Txt_repouso), Absent, Absent)}
EmptyNote == NoteBody(Absent, Absent, Absent, Absent)

\* requests that carry no credential: the handler body does not run
Unauthenticated ==
    \/ \E data \in PacienteInputs : create_paciente(NoCred, data)
    \/ delete_paciente(NoCred, 1)
    \/ reativar_paciente(NoCred, 1)
    \/ \E data \in {ConsultaBody(1, 1, S(Dc_1001), Absent, Absent)} :
          create_consulta(NoCred, data)
    \/ update_consulta_status(NoCred, 1, StatusBody(S(cancelada)))
    \/ \E data \in NoteInputs : create_prontuario(NoCred, 1, data)

Next ==
    \/ \E data \in RegisterInputs : register(data)
    \/ \E data \in LoginInputs : login(data)
    \/ Unauthenticated
    \/ \E cred \in tokens, data \in PacienteInputs : create_paciente(cred, data)
    \/ \E cred \in tokens, id \in 1..(Len(pacientes) + 1) : delete_paciente(cred, id)
    \/ \E cred \in tokens, id \in 1..(Len(pacientes) + 1) : reativar_paciente(cred, id)
    \/ \E cred \in tokens, data \in ConsultaInputs : create_consulta(cred, data)
    \/ \E cred \in tokens, id \in 1..(Len(consultas) + 1), data \in StatusInputs :
          update_consulta_status(cred, id, data)
    \/ \E cred \in tokens : update_consulta_status(cred, 1, StatusBody(S(Txt_feita)))
    \/ \E cred \in tokens, id \in 1..(Len(consultas) + 1), data \in NoteInputs :
          create_prontuario(cred, id, data)
    \/ \E cred \in tokens : create_prontuario(cred, 1, EmptyNote)

Spec == Init /\ [][Next]_vars

(***************************************************************************)
(* SpecAgenda: scheduling alone (no visit notes), requests one at a time.  *)
(* update_consulta_status already takes an appointment to every status, so *)
(* the appointments reached are those of Spec.                             *)
(***************************************************************************)
NextAgenda ==
    \/ \E data \in RegisterInputs : register(data)
    \/ \E data \in LoginInputs : login(data)
    \/ \E cred \in CredInputs, data \in PacienteInputs : create_paciente(cred, data)
    \/ \E cred \in tokens, id \in 1..(Len(pacientes) + 1) : delete_paciente(cred, id)
    \/ \E cred \in tokens, id \in 1..(Len(pacientes) + 1) : reativar_paciente(cred, id)
    \/ \E cred \in CredInputs, data \in ConsultaInputs : create_consulta(cred, data)
    \/ \E cred \in tokens, id \in 1..(Len(consultas) + 1), data \in StatusInputs :
          update_consulta_status(cred, id, data)
    \/ \E cred \in tokens : update_consulta_status(cred, 1, StatusBody(S(Txt_feita)))

SpecAgenda == Init /\ [][NextAgenda]_vars

(***************************************************************************)
(* SpecNotes: visit notes on appointments of every status, requests one at *)
(* a time, the patient staying active.                                     *)
(***************************************************************************)
ConsultaInputsNotes ==
    {ConsultaBody(1, 1, S(d), Absent, Absent) : d \in {Dc_1001, Dc_1002}}

NextNotes ==
    \/ \E data \in RegisterInputs : register(data)
    \/ \E data \in LoginInputs : login(data)
    \/ \E cred \in tokens, data \in PacienteInputs : create_paciente(cred, data)
    \/ \E cred \in tokens, data \in ConsultaInputsNotes : create_consulta(cred, data)
    \/ \E cred \in tokens, id \in 1..(Len(consultas) + 1), data \in StatusInputs :
          update_consulta_status(cred, id, data)
    \/ \E cred \in CredInputs, id \in 1..(Len(consultas) + 1), data \in NoteInputs :
          create_prontuario(cred, id, data)
    \/ \E cred \in tokens : create_prontuario(cred, 1, EmptyNote)

SpecNotes == Init /\ [][NextNotes]_vars

Cpf_simples == <<"1", "2", "3", "4", "5", "6", "7", "8", "9", "0", "1">>
Cpf_arabe == <<" ", "1", "2", "3", "4", "5", "6", "7", "8", "9", "0", "ar3", " ">>
Cpf_curto == <<"1", "2", "3", "4", "5", "6", "7", "8", "9", "0">>
Cpf_letra == <<"1", "2", "3", "4", "5", "6", "7", "8", "9", "0", "a">>
Cpf_sobrescrito == <<"1", "2", "3", "4", "5", "6", "7", "8", "9", "0", "sup2">>
Cpf_longo == <<"1", "2", "3", "4", "5", "6", "7", "8", "9", "0", "1", "2">>
Cpf_abc == <<"a", "b", "c">>
Txt_A == <<"A">>
Email_a == <<"a", "@", "x", ".", "c", "o">>
Txt_an == <<"a", "n">>

(***************************************************************************)
(* SpecPac: the patient service, with the clock running                    *)
(***************************************************************************)
CpfInputs ==
    {S(Cpf_formatado), S(Cpf_simples), S(Cpf_curto), S(Cpf_letra), S(Cpf_sobrescrito),
     S(Cpf_longo), S(Cpf_abc), Absent, Null}
PacienteInputsPac ==
    {PacienteBody(S(Txt_Ana), cpf, Absent, Absent, Absent, Absent) : cpf \in CpfInputs}
    \cup {PacienteBody(S(Txt_Bia), S(Cpf_arabe), Absent, Absent, Absent, S(Email_a)),
          PacienteBody(S(Txt_A), S(Cpf_simples), Absent, Absent, Absent, Absent)}
PacienteUpdatesPac ==
    {PacienteBody(S(Txt_Bia), Absent, Absent, Absent, Absent, Absent),
     PacienteBody(Absent, Absent, Absent, Absent, Absent, S(Email_a))}
ListInputs ==
    {[page |-> 1, per_page |-> 10, search |-> <<>>],
     [page |-> 2, per_page |-> 1, search |-> <<>>],
     [page |-> 1, per_page |-> 10, search |-> Txt_an]}

UnauthenticatedPac ==
    \/ \E data \in PacienteInputs : create_paciente(NoCred, data)
    \/ get_paciente(NoCred, 1)
    \/ get_pacientes(NoCred, 1, 10, <<>>)
    \/ \E data \in PacienteUpdatesPac : update_paciente(NoCred, 1, data)
    \/ delete_paciente(NoCred, 1)
    \/ reativar_paciente(NoCred, 1)

NextPac ==
    \/ Tick
    \/ \E data \in RegisterInputs : register(data)
    \/ \E data \in LoginInputs : login(data)
    \/ UnauthenticatedPac
    \/ \E cred \in tokens, data \in PacienteInputsPac : create_paciente(cred, data)
    \/ \E cred \in tokens, id \in 1..(Len(pacientes) + 1) : get_paciente(cred, id)
    \/ \E cred \in tokens, l \in ListInputs :
          get_pacientes(cred, l.page, l.per_page, l.search)
    \/ \E cred \in tokens, id \in 1..(Len(pacientes) + 1), data \in PacienteUpdatesPac :
          update_paciente(cred, id, data)
    \/ \E cred \in tokens, id \in 1..(Len(pacientes) + 1) : delete_paciente(cred, id)
    \/ \E cred \in tokens, id \in 1..(Len(pacientes) + 1) : reativar_paciente(cred, id)

SpecPac == Init /\ [][NextPac]_vars

(***************************************************************************)
(* SpecEdit: editing patients, with emails, soft deletes and the clock     *)
(***************************************************************************)
Email_b == <<"b", "@", "x", ".", "c", "o">>

PacienteInputsEdit ==
    {PacienteBody(S(Txt_Ana), S(Cpf_simples), Absent, Absent, Absent, S(Email_a)),
     PacienteBody(S(Txt_Bia), S(Cpf_arabe), Absent, Absent, Absent, S(Email_a)),
     PacienteBody(S(Txt_Bia), S(Cpf_arabe), Absent, Absent, Absent, S(Email_b))}
PacienteUpdatesEdit ==
    {PacienteBody(Absent, Absent, Absent, Absent, Absent, S(Email_a)),
     PacienteBody(Absent, Absent, Absent, Absent, Absent, S(Email_b)),
     PacienteBody(S(Txt_Bia), Absent, Absent, Absent, Absent, Absent),
     PacienteBody(S(Txt_A), Absent, Absent, Absent, Absent, Absent),
     PacienteBody(Absent, Absent, Absent, Absent, Absent, Absent)}

NextEdit ==
    \/ Tick
    \/ \E data \in RegisterInputs : register(data)
    \/ \E data \in LoginInputs : login(data)
    \/ \E cred \in tokens, data \in PacienteInputsEdit : create_paciente(cred, data)
    \/ \E cred \in CredInputs, id \in 1..(Len(pacientes) + 1), data \in PacienteUpdatesEdit :
          update_paciente(cred, id, data)
    \/ \E cred \in tokens, id \in 1..(Len(pacientes) + 1) : delete_paciente(cred, id)
    \/ \E cred \in tokens, id \in 1..(Len(pacientes) + 1) : reativar_paciente(cred, id)

SpecEdit == Init /\ [][NextEdit]_vars

(***************************************************************************)
(* SpecAuth: the account service                                           *)
(***************************************************************************)
Txt_admin == <<"a", "d", "m", "i", "n">>
Txt_chefe == <<"c", "h", "e", "f", "e">>
Txt_ana == <<"a", "n", "a">>
Txt_eve == <<"e", "v", "e">>
Txt_dra_espacos == <<"\t", "d", "r", "a", "\n">>
Txt_nova12 == <<"n", "o", "v", "a", "1", "2">>
Txt_curta == <<"a", "b", "c">>

PasswordBody(current_password, new_password) ==
    [current_password |-> current_password, new_password |-> new_password]

RegisterInputsAuth ==
    {RegisterBody(S(Txt_dra), S(Txt_senha1), Absent, S(Txt_medico)),
     RegisterBody(S(Txt_dra_espacos), S(Txt_nova12), Absent, S(Txt_admin)),
     RegisterBody(S(Txt_dra), S(Txt_curta), Absent, S(Txt_admin)),
     RegisterBody(S(Txt_bob), S(Txt_senha1), S(Email_a), Absent),
     RegisterBody(S(Txt_ana), S(Txt_senha1), S(Email_a), S(Txt_admin)),
     RegisterBody(S(Txt_eve), S(Txt_senha1), Absent, S(Txt_chefe))}
LoginInputsAuth ==
    {LoginBody(S(Txt_dra), S(p)) : p \in {Txt_senha1, Txt_nova12, <<>>}}
    \cup {LoginBody(S(Txt_bob), S(Txt_senha1))}
PasswordInputs ==
    {PasswordBody(S(Txt_senha1), S(Txt_nova12)),
     PasswordBody(S(Txt_senha1), S(Txt_senha1)),
     PasswordBody(S(Txt_senha1), S(Txt_curta)),
     PasswordBody(S(Txt_errada), S(Txt_nova12)),
     PasswordBody(S(Txt_errada), Absent)}

NextAuth ==
    \/ \E data \in RegisterInputsAuth : register(data)
    \/ \E data \in LoginInputsAuth : login(data)
    \/ \E cred \in CredInputs : get_profile(cred)
    \/ \E cred \in CredInputs, data \in PasswordInputs : change_password(cred, data)
    \/ \E cred \in CredInputs : change_password(cred, JsonNullBody)

SpecAuth == Init /\ [][NextAuth]_vars

(***************************************************************************)
(* SpecGuard: every route of main.py, routes/auth.py, routes/pacientes.py  *)
(* and routes/consultas.py, called with no credential, with a credential  *)
(* the server did not issue, and with an issued one.  The routes of       *)
(* user_bp (routes/user.py, imported by main.py) are not part of it.      *)
(***************************************************************************)
Di_2031 == <<"2", "0", "3", "1", "-", "0", "1", "-", "0", "1">>
Di_invalida == <<"2", "0", "3", "1", "-", "0", "2", "-", "3", "0">>
Di_ultima == <<"9", "9", "9", "9", "-", "1", "2", "-", "3", "1">>

\* the query strings of GET /consultas: <<paciente_id, status, data_inicio, data_fim>>
ConsultaQueries ==
    {<<0, <<>>, <<>>, <<>>>>, <<1, agendada, Di_2031, Di_2031>>,
     <<0, <<>>, <<>>, Di_invalida>>, <<0, <<>>, Di_2031, Di_ultima>>}
PasswordInputsGuard == {PasswordBody(S(Txt_senha1), S(Txt_senha1))}
PacienteUpdatesGuard == {PacienteBody(S(Txt_Bia), Absent, Absent, Absent, Absent, Absent)}
ConsultaInputsGuard == {ConsultaBody(1, 1, S(Dc_1001), Absent, Absent)}
StatusInputsGuard == {StatusBody(S(cancelada))}

NextGuard ==
    \/ \E data \in RegisterInputs : register(data)
    \/ \E data \in LoginInputs : login(data)
    \/ \E cred \in Credentials : api_status(cred)
    \/ \E cred \in Credentials, found \in BOOLEAN : serve(cred, found)
    \/ \E cred \in Credentials : get_profile(cred)
    \/ \E cred \in Credentials, data \in PasswordInputsGuard : change_password(cred, data)
    \/ \E cred \in Credentials, data \in PacienteInputs : create_paciente(cred, data)
    \/ \E cred \in Credentials : get_pacientes(cred, 1, 10, <<>>)
    \/ \E cred \in Credentials : get_paciente(cred, 1)
    \/ \E cred \in Credentials, data \in PacienteUpdatesGuard : update_paciente(cred, 1, data)
    \/ \E cred \in Credentials : delete_paciente(cred, 1)
    \/ \E cred \in Credentials : reativar_paciente(cred, 1)
    \/ \E cred \in Credentials, data \in ConsultaInputsGuard : create_consulta(cred, data)
    \/ \E cred \in Credentials, q \in ConsultaQueries :
          get_consultas(cred, 1, 10, q[1], 0, q[2], q[3], q[4])
    \/ \E cred \in Credentials : get_consulta(cred, 1)
    \/ \E cred \in Credentials, data \in StatusInputsGuard :
          update_consulta_status(cred, 1, data)
    \/ \E cred \in Credentials, data \in NoteInputs : create_prontuario(cred, 1, data)
    \/ \E cred \in Credentials, data \in NoteUpdates : update_prontuario(cred, 1, data)

SpecGuard == Init /\ [][NextGuard]_vars

(***************************************************************************)
(* SpecRole: one request of a patient, appointment or note route is run    *)
(* twice from the same store, by two callers whose accounts have different *)
(* roles.  inflight holds the request, the store both runs start from and  *)
(* the outcome of the first run.                                           *)
(***************************************************************************)
RegisterInputsRole ==
    {RegisterBody(S(Txt_dra), S(Txt_senha1), Absent, S(Txt_medico)),
     RegisterBody(S(Txt_chefe), S(Txt_senha1), Absent, S(Txt_admin)),
     RegisterBody(S(Txt_bob), S(Txt_senha1), Absent, Absent)}
LoginInputsRole ==
    {LoginBody(S(u), S(Txt_senha1)) : u \in {Txt_dra, Txt_chefe, Txt_bob}}

RoleRequests ==
    {[op |-> "create_paciente", data |-> data] : data \in PacienteInputs}
    \cup {[op |-> "get_pacientes"], [op |-> "get_paciente"], [op |-> "delete_paciente"],
          [op |-> "reativar_paciente"], [op |-> "get_consultas"], [op |-> "get_consulta"]}
    \cup {[op |-> "update_paciente", data |-> data] : data \in PacienteUpdatesGuard}
    \cup {[op |-> "create_consulta", data |-> data] : data \in ConsultaInputsGuard}
    \cup {[op |-> "update_consulta_status", data |-> data] : data \in StatusInputsGuard}
    \cup {[op |-> "create_prontuario", data |-> data] : data \in NoteInputs}
    \cup {[op |-> "update_prontuario", data |-> data] : data \in NoteUpdates}

\* the route a request goes to, called with a credential
Call(cred, r) ==
    \/ r.op = "create_paciente" /\ create_paciente(cred, r.data)
    \/ r.op = "get_pacientes" /\ get_pacientes(cred, 1, 10, <<>>)
    \/ r.op = "get_paciente" /\ get_paciente(cred, 1)
    \/ r.op = "update_paciente" /\ update_paciente(cred, 1, r.data)
    \/ r.op = "delete_paciente" /\ delete_paciente(cred, 1)
    \/ r.op = "reativar_paciente" /\ reativar_paciente(cred, 1)
    \/ r.op = "create_consulta" /\ create_consulta(cred, r.data)
    \/ r.op = "get_consultas" /\ get_consultas(cred, 1, 10, 0, 0, <<>>, <<>>, <<>>)
    \/ r.op = "get_consulta" /\ get_consulta(cred, 1)
    \/ r.op = "update_consulta_status" /\ update_consulta_status(cred, 1, r.data)
    \/ r.op = "create_prontuario" /\ create_prontuario(cred, 1, r.data)
    \/ r.op = "update_prontuario" /\ update_prontuario(cred, 1, r.data)

\* a request and its first caller are chosen; the store is remembered
Snapshot ==
    /\ inflight = <<>>
    /\ \E r \in RoleRequests, cred \in tokens :
          /\ \E other \in tokens : other.tipo_usuario # cred.tipo_usuario
          /\ inflight' = <<[run |-> 1, r |-> r, cred |-> cred, store0 |-> store]>>
    /\ last' = [op |-> "snapshot", status |-> 0]
    /\ UNCHANGED <<store, tokens, clock, before_delete>>

\* the first run
FirstRun ==
    /\ inflight # <<>> /\ inflight[1].run = 1 /\ last.op = "snapshot"
    /\ Call(inflight[1].cred, inflight[1].r)

\* the outcome of the first run is remembered and the store is put back
Rollback ==
    /\ inflight # <<>> /\ inflight[1].run = 1 /\ last.op # "snapshot"
    /\ inflight' = <<[run |-> 2, r |-> inflight[1].r, cred |-> inflight[1].cred,
                      store1 |-> store, last1 |-> last]>>
    /\ users' = inflight[1].store0[1]
    /\ pacientes' = inflight[1].store0[2]
    /\ consultas' = inflight[1].store0[3]
    /\ prontuarios' = inflight[1].store0[4]
    /\ last' = [op |-> "rollback", status |-> 0]
    /\ UNCHANGED <<tokens, clock, before_delete>>

\* the second run: the same request, a caller of another role
SecondRun ==
    /\ inflight # <<>> /\ inflight[1].run = 2 /\ last.op = "rollback"
    /\ \E cred \in tokens :
          /\ cred.tipo_usuario # inflight[1].cred.tipo_usuario
          /\ Call(cred, inflight[1].r)

\* both runs are over
Forget ==
    /\ inflight # <<>> /\ inflight[1].run = 2 /\ last.op # "rollback"
    /\ inflight' = <<>>
    /\ UNCHANGED <<store, tokens, clock, last, before_delete>>

NextRole ==
    \/ inflight = <<>> /\ \E data \in RegisterInputsRole : register(data)
    \/ inflight = <<>> /\ \E data \in LoginInputsRole : login(data)
    \/ Snapshot
    \/ FirstRun
    \/ Rollback
    \/ SecondRun
    \/ Forget

SpecRole == Init /\ [][NextRole]_vars

(***************************************************************************)
(* SpecUnit: requests that are refused after part of their work is done    *)
(***************************************************************************)
Tel_curto == <<"1", "2", "3">>

PacienteInputsUnit ==
    {PacienteBody(S(Txt_Ana), S(Cpf_simples), Absent, Absent, Absent, S(Email_a)),
     PacienteBody(S(Txt_Bia), S(Cpf_arabe), Absent, Absent, Absent, S(Email_b)),
     PacienteBody(S(Txt_Bia), S(Cpf_simples), Absent, Absent, Absent, Absent)}

\* a valid nome followed by a later member that is refused, and one body
\* that is accepted
PacienteUpdatesUnit ==
    {PacienteBody(S(Txt_Bia), Absent, S(Di_invalida), Absent, Absent, Absent),
     PacienteBody(S(Txt_Bia), Absent, Absent, Absent, S(Tel_curto), Absent),
     PacienteBody(S(Txt_Bia), Absent, Absent, Absent, Null, Absent),
     PacienteBody(S(Txt_Bia), Absent, Absent, Absent, Absent, S(Email_b)),
     PacienteBody(Absent, Absent, Absent, S(Txt_repouso), Absent, Absent)}

ConsultaInputsUnit ==
    {ConsultaBody(1, 1, S(Dc_1001), Absent, Absent),
     ConsultaBody(1, 1, S(Dc_invalida), Absent, Absent),
     ConsultaBody(1, 2, S(Dc_1001), Absent, Absent)}

NextUnit ==
    \/ \E data \in RegisterInputs : register(data)
    \/ \E data \in LoginInputs : login(data)
    \/ \E cred \in tokens, data \in PacienteInputsUnit : create_paciente(cred, data)
    \/ \E cred \in CredInputs, id \in 1..(Len(pacientes) + 1), data \in PacienteUpdatesUnit :
          update_paciente(cred, id, data)
    \/ \E cred \in tokens : delete_paciente(cred, 1)
    \/ \E cred \in tokens : reativar_paciente(cred, 1)
    \/ \E cred \in tokens, data \in ConsultaInputsUnit : create_consulta(cred, data)
    \/ \E cred \in tokens : update_consulta_status(cred, 1, StatusBody(S(Txt_feita)))
    \/ \E cred \in tokens, data \in NoteInputs : create_prontuario(cred, 1, data)
    \/ \E cred \in tokens, data \in NoteUpdates : update_prontuario(cred, 1, data)

SpecUnit == Init /\ [][NextUnit]_vars

(***************************************************************************)
(* SpecKeep: every route that writes, with the clock running               *)
(***************************************************************************)
PacienteInputsKeep ==
    {PacienteBody(S(Txt_Bia), S(Cpf_arabe), Absent, Absent, Absent, Absent)}

\* bodies of update_paciente that carry a cpf or an ativo member
PacienteUpdatesKeep ==
    {PacienteBody(S(Txt_Bia), S(Cpf_arabe), Absent, Absent, Absent, Absent),
     PacienteBody(Absent, S(Cpf_arabe), Absent, Absent, Absent, Absent),
     PacienteBody(Absent, Absent, Absent, S(Txt_repouso), Absent, Absent)
         @@ [ativo |-> JsonFalse]}

NextKeep ==
    \/ Tick
    \/ \E data \in RegisterInputs : register(data)
    \/ \E data \in LoginInputs : login(data)
    \/ \E cred \in tokens, data \in PasswordInputsGuard : change_password(cred, data)
    \/ \E cred \in tokens, data \in PacienteInputs : create_paciente(cred, data)
    \/ \E cred \in tokens, data \in PacienteInputsKeep : create_paciente(cred, data)
    \/ \E cred \in tokens, data \in PacienteUpdatesGuard : update_paciente(cred, 1, data)
    \/ \E cred \in CredInputs, data \in PacienteUpdatesKeep : update_paciente(cred, 1, data)
    \/ \E cred \in tokens : delete_paciente(cred, 1)
    \/ \E cred \in tokens : reativar_paciente(cred, 1)
    \/ \E cred \in tokens, data \in ConsultaInputsGuard : create_consulta(cred, data)
    \/ \E cred \in tokens, data \in StatusInputsGuard : update_consulta_status(cred, 1, data)
    \/ \E cred \in tokens, data \in NoteInputs : create_prontuario(cred, 1, data)
    \/ \E cred \in tokens, data \in NoteUpdates : update_prontuario(cred, 1, data)

SpecKeep == Init /\ [][NextKeep]_vars

(***************************************************************************)
(* SpecConc: requests served by concurrent workers.  A scheduling or note  *)
(* request reads (its checks) in one step and writes (insert and commit)   *)
(* in a later step; nothing is locked in between.                          *)
(***************************************************************************)
Remove(seq, k) == SubSeq(seq, 1, k - 1) \o SubSeq(seq, k + 1, Len(seq))

\* create_consulta up to the conflict check; a request that passes waits in
\* inflight for its insert
begin_create_consulta(cred, data) ==
    LET req == [cred |-> cred, data |-> data]
        status == create_consulta_check(data)
    IN /\ Len(inflight) < MaxInflight
       /\ IF ~jwt_required(cred)
          THEN Reply("create_consulta", [cred |-> cred], 401, NoBody) /\ UNCHANGED inflight
          ELSE IF status # 0
          THEN Reply("create_consulta", req, status, NoBody) /\ UNCHANGED inflight
          ELSE /\ inflight' = Append(inflight, [op |-> "create_consulta", req |-> req])
               /\ UNCHANGED last
       /\ UNCHANGED <<store, tokens, clock, before_delete>>

\* create_consulta from db.session.add to the response
commit_create_consulta(k) ==
    /\ inflight[k].op = "create_consulta"
    /\ Len(consultas) < MaxConsultas
    /\ consultas' = consultas_commit(consultas, create_consulta_row(inflight[k].req.data))
    /\ IF Len(consultas') > Len(consultas)
       THEN Reply("create_consulta", inflight[k].req, 201, Len(consultas'))
       ELSE Reply("create_consulta", inflight[k].req, 500, NoBody)
    /\ inflight' = Remove(inflight, k)
    /\ UNCHANGED <<users, pacientes, prontuarios, tokens, clock, before_delete>>

\* create_prontuario up to the "already has a note" check
begin_create_prontuario(cred, consulta_id, data) ==
    LET req == [cred |-> cred, consulta_id |-> consulta_id, data |-> data]
        status == create_prontuario_check(consulta_id, data)
    IN /\ Len(inflight) < MaxInflight
       /\ IF ~jwt_required(cred)
          THEN Reply("create_prontuario", [cred |-> cred], 401, NoBody)
               /\ UNCHANGED inflight
          ELSE IF status # 0
          THEN Reply("create_prontuario", req, status, NoBody) /\ UNCHANGED inflight
          ELSE /\ inflight' = Append(inflight, [op |-> "create_prontuario", req |-> req])
               /\ UNCHANGED last
       /\ UNCHANGED <<store, tokens, clock, before_delete>>

\* create_prontuario from db.session.add to the response
commit_create_prontuario(k) ==
    /\ inflight[k].op = "create_prontuario"
    /\ Len(prontuarios) < MaxProntuarios
    /\ create_prontuario_commit(inflight[k].req.consulta_id, inflight[k].req.data)
    /\ IF Len(prontuarios') > Len(prontuarios)
       THEN last' = [op |-> "create_prontuario", req |-> inflight[k].req, status |-> 201,
                     body |-> Len(prontuarios'),
                     status_anterior |-> consultas[inflight[k].req.consulta_id].status]
       ELSE Reply("create_prontuario", inflight[k].req, 500, NoBody)
    /\ inflight' = Remove(inflight, k)
    /\ UNCHANGED <<users, pacientes, tokens, clock, before_delete>>

ConsultaInputsConc ==
    {ConsultaBody(1, 1, S(d), Absent, Absent) : d \in {Dc_1001_curta, Dc_1002}}

NextConc ==
    \/ \E data \in RegisterInputs : register(data)
    \/ \E data \in LoginInputs : login(data)
    \/ \E cred \in CredInputs, data \in PacienteInputs : create_paciente(cred, data)
    \/ \E cred \in tokens, data \in ConsultaInputsConc : begin_create_consulta(cred, data)
    \/ \E k \in 1..Len(inflight) : commit_create_consulta(k)
    \/ \E cred \in tokens, id \in 1..(Len(consultas) + 1), data \in NoteInputs :
          begin_create_prontuario(cred, id, data)
    \/ \E k \in 1..Len(inflight) : commit_create_prontuario(k)

SpecConc == Init /\ [][NextConc]_vars

(***************************************************************************)
(* Properties                                                              *)
(***************************************************************************)
\* appointments i and j are both scheduled for one provider at one instant
DoubleBooked(i, j) ==
    /\ i # j
    /\ consultas[i].status = agendada /\ consultas[j].status = agendada
    /\ consultas[i].medico_id = consultas[j].medico_id
    /\ consultas[i].data_consulta = consultas[j].data_consulta

\* C1: in every state reached by requests handled one at a time, no two
\* appointments with status 'agendada' have the same medico_id and the same
\* data_consulta.
C1_NoDoubleBooking == \A i, j \in Ids(consultas) : ~DoubleBooked(i, j)

\* the provider has a scheduled appointment at the instant
Scheduled(medico_id, when) ==
    \E i \in Ids(consultas) : /\ consultas[i].medico_id = medico_id
                              /\ consultas[i].data_consulta = when
                              /\ consultas[i].status = agendada

\* a scheduling body that is valid but for the slot: text members, an active
\* patient, an existing provider, a known modality, a well-formed instant
\* that is not in the past
ValidSchedule(data) ==
    /\ data.data_consulta.t = "str"
    /\ data.tipo_consulta.t \in {"str", "absent"}
    /\ data.observacoes.t \in {"str", "absent"}
    /\ Exists(pacientes, data.paciente_id) /\ pacientes[data.paciente_id].ativo
    /\ Exists(users, data.medico_id)
    /\ data.tipo_consulta.t = "str" =>
          strip(data.tipo_consulta.v) \in {presencial, telemedicina}
    /\ strptime_datetime(strip(data.data_consulta.v)).ok
    /\ ~datetime_lt(strptime_datetime(strip(data.data_consulta.v)).v, now)

\* C2: an authenticated, otherwise valid create_consulta for provider P at
\* instant T is answered 409 and stores nothing while P has an appointment
\* with status 'agendada' at T; when P has none (in particular once the
\* appointment that held the slot was moved to 'realizada' or 'cancelada')
\* it is answered 201 and appends one appointment for (P, T) with status
\* 'agendada'.
C2_ConflictUntilStatusChange ==
    [][(last'.op = "create_consulta" /\ last'.status # 401
           /\ ValidSchedule(last'.req.data))
       => LET data == last'.req.data
              when == strptime_datetime(strip(data.data_consulta.v)).v
          IN IF Scheduled(data.medico_id, when)
             THEN last'.status = 409 /\ consultas' = consultas
             ELSE /\ last'.status = 201
                  /\ Len(consultas') = Len(consultas) + 1
                  /\ SubSeq(consultas', 1, Len(consultas)) = consultas
                  /\ consultas'[Len(consultas')].medico_id = data.medico_id
                  /\ consultas'[Len(consultas')].data_consulta = when
                  /\ consultas'[Len(consultas')].status = agendada]_vars

\* the last request booked a slot that an earlier appointment, no longer
\* 'agendada', had held
C2_Witness ==
    /\ last.op = "create_consulta" /\ last.status = 201
    /\ \E i \in 1..(Len(consultas) - 1) :
          /\ consultas[i].medico_id = consultas[Len(consultas)].medico_id
          /\ consultas[i].data_consulta = consultas[Len(consultas)].data_consulta
          /\ consultas[i].status \in {realizada, cancelada}

\* the notes stored for an appointment
NotesOf(table, consulta_id) == {i \in 1..Len(table) : table[i].consulta_id = consulta_id}

\* a note body the handler accepts: not empty, every member text or missing
WellFormedNote(data) ==
    /\ \E k \in NoteKeys : data[k].t # "absent"
    /\ \A k \in NoteKeys : data[k].t \in {"str", "absent"}

\* C3: an authenticated create_prontuario with a well-formed body on an
\* existing appointment without a note is answered 201 whatever the status
\* of the appointment; a create_prontuario step answered 201 appends the
\* note and sets that appointment's status to 'realizada' in the same step,
\* and one answered otherwise changes neither the notes nor the
\* appointments.
C3_NoteAndStatusInOneCommit ==
    [][(last'.op = "create_prontuario" /\ last'.status # 401)
       => LET id == last'.req.consulta_id
          IN /\ (Exists(consultas, id) /\ NotesOf(prontuarios, id) = {}
                   /\ WellFormedNote(last'.req.data)) => last'.status = 201
             /\ IF last'.status = 201
                THEN /\ Len(prontuarios') = Len(prontuarios) + 1
                     /\ SubSeq(prontuarios', 1, Len(prontuarios)) = prontuarios
                     /\ prontuarios'[Len(prontuarios')].consulta_id = id
                     /\ consultas' = [consultas EXCEPT ![id].status = realizada]
                ELSE prontuarios' = prontuarios /\ consultas' = consultas]_vars

\* a note was just created for an appointment that was cancelled
C3_Witness ==
    /\ last.op = "create_prontuario" /\ last.status = 201
    /\ last.status_anterior = cancelada
    /\ consultas[last.req.consulta_id].status = realizada
    /\ NotesOf(prontuarios, last.req.consulta_id) # {}

\* C4: every appointment has at most one visit note, and an authenticated
\* create_prontuario on an appointment that has a note is answered 409 and
\* leaves the notes and the appointments unchanged.
C4_AtMostOneNote ==
    /\ [](\A id \in Ids(consultas) : Cardinality(NotesOf(prontuarios, id)) <= 1)
    /\ [][(last'.op = "create_prontuario" /\ last'.status # 401
             /\ NotesOf(prontuarios, last'.req.consulta_id) # {})
          => (last'.status = 409 /\ prontuarios' = prontuarios
                /\ consultas' = consultas)]_vars

\* a second note was just refused
C4_Witness ==
    /\ last.op = "create_prontuario" /\ last.status = 409
    /\ Cardinality(NotesOf(prontuarios, last.req.consulta_id)) = 1

\* C5: nothing stands between the conflict check and the insert: every
\* create_consulta that passed its check has its appointment appended with
\* status 'agendada' and is answered 201 when its insert step runs, whatever
\* was stored in between; so two requests for one provider and instant that
\* both passed the check are both stored.
C5_InsertAfterCheckAlwaysStores ==
    [][\A k \in 1..Len(inflight) :
          (inflight[k].op = "create_consulta" /\ inflight' = Remove(inflight, k)
             /\ last'.op = "create_consulta")
          => /\ last'.status = 201
             /\ Len(consultas') = Len(consultas) + 1
             /\ SubSeq(consultas', 1, Len(consultas)) = consultas
             /\ consultas'[Len(consultas')] = create_consulta_row(inflight[k].req.data)]_vars

\* two 'agendada' appointments for one provider and instant are stored
C5_Witness ==
    /\ last.op = "create_consulta" /\ last.status = 201
    /\ \E i, j \in Ids(consultas) : DoubleBooked(i, j)

\* C6: nothing stands between the "already has a note" check and the
\* insert: every create_prontuario that passed its check has its note
\* appended and is answered 201 when its insert step runs; so two requests
\* for one appointment that both passed the check store two notes.
C6_NoteInsertAfterCheckAlwaysStores ==
    [][\A k \in 1..Len(inflight) :
          (inflight[k].op = "create_prontuario" /\ inflight' = Remove(inflight, k)
             /\ last'.op = "create_prontuario")
          => /\ last'.status = 201
             /\ Len(prontuarios') = Len(prontuarios) + 1
             /\ SubSeq(prontuarios', 1, Len(prontuarios)) = prontuarios
             /\ prontuarios'[Len(prontuarios')].consulta_id
                   = inflight[k].req.consulta_id]_vars

\* one appointment has two visit notes
C6_Witness ==
    /\ last.op = "create_prontuario" /\ last.status = 201
    /\ \E id \in Ids(consultas) : Cardinality(NotesOf(prontuarios, id)) = 2

\* C7: the cpf stored for every patient, active or not, has exactly 11
\* characters and each of them is a decimal digit.
C7_StoredCpfIsElevenDigits ==
    \A i \in Ids(pacientes) :
        /\ Len(pacientes[i].cpf) = 11
        /\ \A k \in 1..Len(pacientes[i].cpf) : pacientes[i].cpf[k] \in DecimalDigits

\* a patient is stored whose cpf was cleaned on the way in, next to an
\* inactive one
C7_Witness ==
    /\ last.op = "create_paciente" /\ last.status = 201
    /\ last.req.data.cpf.v # pacientes[last.body].cpf
    /\ \E i \in Ids(pacientes) : ~pacientes[i].ativo

\* the step is the handling of a request to op (the clock stands still while
\* a request is handled; Tick alone moves it)
Handles(op) == last'.op = op /\ clock' = clock

\* every member of a patient body is text or missing
TextMembers(data) == \A k \in DOMAIN data : data[k].t \in {"str", "absent"}

\* the text is not made of exactly 11 digits
NotElevenDigits(cpf) ==
    Len(cpf) # 11 \/ \E k \in 1..Len(cpf) : cpf[k] \notin DecimalDigits

\* C8 as stated: create_paciente with a cpf that is not 11 digits long or is
\* non-numeric is answered 400 and stores no patient.
C8_NonNumericCpfRejected ==
    [][(Handles("create_paciente") /\ last'.status # 401
          /\ TextMembers(last'.req.data) /\ last'.req.data.cpf.t = "str"
          /\ NotElevenDigits(strip(last'.req.data.cpf.v)))
       => (last'.status = 400 /\ pacientes' = pacientes)]_vars

\* C8 amended: an authenticated create_paciente whose members are text and
\* whose cpf, once its non-digit characters are removed, does not have
\* exactly 11 digits is answered 400 and stores no patient.
C8_CpfWithoutElevenDigitsRejected ==
    [][(Handles("create_paciente") /\ last'.status # 401
          /\ TextMembers(last'.req.data)
          /\ Len(sub_nondigits(get(last'.req.data.cpf).v)) # 11)
       => (last'.status = 400 /\ pacientes' = pacientes)]_vars

\* a cpf of 12 digits was just refused
C8_Witness ==
    /\ last.op = "create_paciente" /\ last.status = 400
    /\ last.req.data.nome = S(Txt_Ana)
    /\ Len(sub_nondigits(last.req.data.cpf.v)) = 12

\* C9: no two patients share a cpf, and an authenticated create_paciente
\* with text members, a name of at least 2 characters and a cpf whose digits
\* are the cpf of a stored patient is answered 409 and leaves the patients
\* unchanged.
C9_DuplicateCpfRefused ==
    /\ [](\A i, j \in Ids(pacientes) : i # j => pacientes[i].cpf # pacientes[j].cpf)
    /\ [][(Handles("create_paciente") /\ last'.status # 401
             /\ TextMembers(last'.req.data)
             /\ Len(strip(get(last'.req.data.nome).v)) >= MinNome
             /\ \E i \in Ids(pacientes) :
                   pacientes[i].cpf = sub_nondigits(get(last'.req.data.cpf).v))
          => (last'.status = 409 /\ pacientes' = pacientes)]_vars

\* the cpf of an inactive patient, typed with punctuation, was just refused
C9_Witness ==
    /\ last.op = "create_paciente" /\ last.status = 409
    /\ \E i \in Ids(pacientes) :
          /\ pacientes[i].cpf = sub_nondigits(last.req.data.cpf.v)
          /\ pacientes[i].cpf # last.req.data.cpf.v
          /\ ~pacientes[i].ativo

\* delete_paciente hides the patient from get_paciente and get_pacientes;
\* reativar_paciente on an active patient is answered 400 and changes nothing
SoftDeleteVisibility ==
    /\ (Handles("delete_paciente") /\ last'.status = 200)
          => ~pacientes'[last'.req.paciente_id].ativo
    /\ (Handles("get_paciente") /\ last'.status # 401
          /\ Exists(pacientes, last'.req.paciente_id)
          /\ ~pacientes[last'.req.paciente_id].ativo) => last'.status = 404
    /\ (Handles("get_pacientes") /\ last'.status = 200)
          => \A k \in DOMAIN last'.body.pacientes :
                pacientes[last'.body.pacientes[k].id].ativo
    /\ (Handles("reativar_paciente") /\ last'.status = 200)
          => pacientes'[last'.req.paciente_id].ativo
    /\ (Handles("reativar_paciente") /\ last'.status # 401
          /\ Exists(pacientes, last'.req.paciente_id)
          /\ pacientes[last'.req.paciente_id].ativo)
          => (last'.status = 400 /\ pacientes' = pacientes)

\* get_paciente answered 200 for a patient deleted earlier and not updated since
SeenAfterReactivation ==
    /\ Handles("get_paciente") /\ last'.status = 200
    /\ before_delete[last'.req.paciente_id] # <<>>

WithoutUpdateTimestamp(dict) ==
    [k \in DOMAIN dict \ {"data_atualizacao"} |-> dict[k]]

\* C10 as stated: after delete_paciente get_paciente is answered 404 and the
\* patient is not listed; after reativar_paciente get_paciente returns the
\* patient fields it had before the delete; reativar_paciente on an active
\* patient is answered 400 and changes nothing.
C10_SoftDeleteRestoresAllFields ==
    [][/\ SoftDeleteVisibility
       /\ SeenAfterReactivation
             => last'.body = before_delete[last'.req.paciente_id][1]]_vars

\* C10 amended: as stated, except that the fields get_paciente returns after
\* the reactivation are those from before the delete apart from
\* data_atualizacao, which the delete and the reactivation each set to the
\* time of the request.
C10_SoftDeleteRestoresFieldsButTimestamp ==
    [][/\ SoftDeleteVisibility
       /\ SeenAfterReactivation
             => WithoutUpdateTimestamp(last'.body)
                   = WithoutUpdateTimestamp(before_delete[last'.req.paciente_id][1])]_vars

\* get_paciente just returned a reactivated patient whose update timestamp
\* is later than before the delete
C10_Witness ==
    /\ last.op = "get_paciente" /\ last.status = 200
    /\ before_delete[last.req.paciente_id] # <<>>
    /\ last.body.data_atualizacao
          > before_delete[last.req.paciente_id][1].data_atualizacao

\* C11: an authenticated update_paciente on a patient id that is absent or
\* whose ativo flag is false is answered 404 and leaves every patient as it
\* was, whatever the body.
C11_OnlyActivePatientsEditable ==
    [][(Handles("update_paciente") /\ last'.status # 401
          /\ (~Exists(pacientes, last'.req.paciente_id)
                \/ ~pacientes[last'.req.paciente_id].ativo))
       => (last'.status = 404 /\ pacientes' = pacientes)]_vars

\* an update with a body that would change the name was just refused for an
\* inactive patient, after the clock moved
C11_Witness ==
    /\ last.op = "update_paciente" /\ last.status = 404
    /\ Exists(pacientes, last.req.paciente_id)
    /\ ~pacientes[last.req.paciente_id].ativo
    /\ last.req.data.nome = S(Txt_Bia)
    /\ pacientes[last.req.paciente_id].nome # Txt_Bia
    /\ clock > pacientes[last.req.paciente_id].data_atualizacao

\* the patients other than id that hold the email
HeldByOther(email, id) ==
    {j \in Ids(pacientes) : j # id /\ pacientes[j].email = S(email)}

\* a patient body whose only member is a well-formed email
OnlyEmail(data) ==
    /\ \A k \in DOMAIN data \ {"email"} : data[k].t = "absent"
    /\ data.email.t = "str"
    /\ strip(data.email.v) # <<>> /\ validar_email(strip(data.email.v))

\* a create_paciente body that is valid but for its email being taken
ValidNewPaciente(data) ==
    /\ TextMembers(data)
    /\ Len(strip(get(data.nome).v)) >= MinNome
    /\ validar_cpf(strip(get(data.cpf).v))
    /\ \A i \in Ids(pacientes) : pacientes[i].cpf # sub_nondigits(get(data.cpf).v)
    /\ data.telefone.t = "absent" /\ data.data_nascimento.t = "absent"
    /\ strip(get(data.email).v) # <<>> /\ validar_email(strip(get(data.email).v))

\* C12: no two patients share a non-null email; an authenticated, otherwise
\* valid create_paciente, or update_paciente of an active patient, with an
\* email that another patient (active or not) holds is answered 409 and
\* changes nothing, while update_paciente with the patient's own current
\* email is answered 200 and leaves every patient as it was.
C12_EmailUniqueAmongPatients ==
    /\ [](\A i, j \in Ids(pacientes) :
            (i # j /\ pacientes[i].email.t = "str")
               => pacientes[i].email # pacientes[j].email)
    /\ [][(Handles("create_paciente") /\ last'.status # 401
             /\ ValidNewPaciente(last'.req.data)
             /\ HeldByOther(strip(get(last'.req.data.email).v), 0) # {})
          => (last'.status = 409 /\ pacientes' = pacientes)]_vars
    /\ [][(Handles("update_paciente") /\ last'.status # 401
             /\ paciente_editavel(last'.req.paciente_id)
             /\ OnlyEmail(last'.req.data))
          => LET id == last'.req.paciente_id
                 email == strip(last'.req.data.email.v)
             IN /\ HeldByOther(email, id) # {}
                     => (last'.status = 409 /\ pacientes' = pacientes)
                /\ pacientes[id].email = S(email)
                     => (last'.status = 200 /\ pacientes' = pacientes)]_vars

\* a patient just re-submitted its own email while another patient holds a
\* different one
C12_Witness ==
    /\ last.op = "update_paciente" /\ last.status = 200
    /\ OnlyEmail(last.req.data)
    /\ last.body.email = last.req.data.email
    /\ before_delete[last.req.paciente_id] = <<>>
    /\ \E j \in Ids(pacientes) :
          /\ j # last.req.paciente_id
          /\ pacientes[j].email.t = "str"
          /\ pacientes[j].email # last.body.email

\* the three role tags of the specification
RoleTags == {Txt_medico, Txt_admin, recepcionista}

\* C13: the role tag (tipo_usuario) of every stored account is one of medico,
\* admin, recepcionista, and an account registered without a role gets
\* 'recepcionista'.
C13_RoleTagAmongThree ==
    /\ [](\A i \in Ids(users) : users[i].tipo_usuario \in RoleTags)
    /\ [][(last'.op = "register" /\ last'.status = 201
             /\ last'.req.tipo_usuario.t = "absent")
          => users'[last'.body].tipo_usuario = recepcionista]_vars


\* register's text members are usable: no .strip() of a non-string
RegisterReadable(data) ==
    /\ ~not_data(data)
    /\ ~Raises(get(data.username)) /\ ~Raises(get(data.email))
    /\ (data.tipo_usuario.t # "absent" => ~Raises(data.tipo_usuario))

\* the username or the non-empty email of the request is held by an account
HeldByAccount(data) ==
    \/ \E i \in Ids(users) : users[i].username = strip(get(data.username).v)
    \/ /\ strip(get(data.email).v) # <<>>
       /\ \E i \in Ids(users) : users[i].email = S(strip(get(data.email).v))

\* the request passes every check register makes before its two lookups
ValidNewAccount(data) ==
    /\ Len(strip(get(data.username).v)) >= 3
    /\ get(data.password).t = "str" /\ Len(get(data.password).v) >= 6
    /\ (strip(get(data.email).v) # <<>> => auth_validar_email(strip(get(data.email).v)))

\* C14: no two accounts share a username or a non-null email; a register
\* whose username (after strip) or non-empty email is held by an account
\* stores no account, and is answered 409 when the request is otherwise valid.
C14_AccountHandleAndEmailUnique ==
    /\ [](\A i, j \in Ids(users) : i # j =>
             /\ users[i].username # users[j].username
             /\ (users[i].email # Null => users[i].email # users[j].email))
    /\ [][(Handles("register")
             /\ RegisterReadable(last'.req) /\ HeldByAccount(last'.req))
          => /\ users' = users
             /\ last'.status \in {400, 409}
             /\ ValidNewAccount(last'.req) => last'.status = 409]_vars

\* a register with a new username and an email held by an account was just
\* refused
C14_Witness ==
    /\ last.op = "register" /\ last.status = 409
    /\ \E i \in Ids(users) : users[i].email = S(strip(get(last.req.email).v))
    /\ \A i \in Ids(users) : users[i].username # strip(last.req.username.v)


\* the text the stored hash of account i was made from
SecretIn(table, i) == SubSeq(table[i].password, 2, Len(table[i].password))
SecretOf(i) == SecretIn(users, i)

\* the account a login request names, if any
AccountsNamed(data) ==
    IF not_data(data) \/ Raises(get(data.username)) THEN {}
    ELSE {i \in Ids(users) : users[i].username = strip(get(data.username).v)}

\* every credential issued names an account and carries its handle and role
CredentialsNameAccounts ==
    \A t \in tokens :
        /\ t.sub \in Ids(users)
        /\ t.username = users[t.sub].username
        /\ t.tipo_usuario = users[t.sub].tipo_usuario

\* C15: for a registered account, login with a secret other than the current
\* one issues no credential and is answered 401 (400 when the secret is
\* blank); login with the current secret is answered 200 with a credential
\* for that account id, and get_profile with an issued credential is answered
\* 200 with the id, handle and role of that account.
C15_LoginRoundTrip ==
    /\ []CredentialsNameAccounts
    /\ [][Handles("login") =>
            \A i \in AccountsNamed(last'.req) :
              IF get(last'.req.password) = S(SecretOf(i))
              THEN /\ last'.status = 200
                   /\ last'.body.sig = "good" /\ last'.body \in tokens'
                   /\ last'.body.sub = i
              ELSE /\ tokens' = tokens
                   /\ last'.status =
                        IF get(last'.req.password).t = "str"
                           /\ get(last'.req.password).v # <<>>
                        THEN 401 ELSE 400]_vars
    /\ [][(Handles("get_profile") /\ last'.req.cred \in tokens)
          => /\ last'.status = 200
             /\ last'.body.id = last'.req.cred.sub
             /\ last'.body.username = users[last'.req.cred.sub].username
             /\ last'.body.tipo_usuario = users[last'.req.cred.sub].tipo_usuario]_vars

\* the second account read its profile with a credential from login, after a
\* login with another secret had been possible
C15_Witness ==
    /\ last.op = "get_profile" /\ last.status = 200
    /\ last.body.id = 2 /\ last.req.cred.sub = 2
    /\ last.body.username = users[2].username


\* a JSON member holds a non-empty text
NonBlank(member) == member.t = "str" /\ member.v # <<>>

\* C16: an authenticated change_password whose body is null is answered 500;
\* one whose current_password is not the
\* stored secret is answered 401 (400 when either member is blank), one whose
\* current_password matches and whose new_password has fewer than 6
\* characters is answered 400, and both leave the accounts unchanged;
\* otherwise it is answered 200 and only the caller's secret changes, to
\* new_password.  Login then succeeds exactly with the stored secret.
C16_PasswordChange ==
    /\ [][(Handles("change_password") /\ last'.req.cred \in tokens) =>
            LET i == last'.req.cred.sub
                body == last'.req.data
                current_password == IF is_none(body) THEN Null
                                    ELSE get(body.current_password)
                new_password == IF is_none(body) THEN Null ELSE get(body.new_password)
            IN IF is_none(body)
               THEN users' = users /\ last'.status = 500
               ELSE IF current_password # S(SecretOf(i))
               THEN /\ users' = users
                    /\ last'.status =
                         IF NonBlank(current_password) /\ NonBlank(new_password)
                         THEN 401 ELSE 400
               ELSE IF new_password.t # "str" \/ Len(new_password.v) < 6
               THEN users' = users /\ last'.status = 400
               ELSE /\ last'.status = 200
                    /\ users' = [users EXCEPT ![i].password = users'[i].password]
                    /\ SecretIn(users', i) = new_password.v]_vars
    /\ [][Handles("login") =>
            \A i \in AccountsNamed(last'.req) :
                (last'.status = 200) <=> (get(last'.req.password) = S(SecretOf(i)))]_vars

\* the account registered with one secret changed it, and a login with the
\* old secret was then refused
C16_Witness ==
    /\ last.op = "login" /\ last.status = 401
    /\ last.req.password = S(Txt_senha1)
    /\ \E i \in AccountsNamed(last.req) :
          SecretOf(i) = Txt_nova12 /\ users[i].tipo_usuario = Txt_medico


\* the routes of the account, patient, appointment and note services that
\* carry @jwt_required()
ProtectedOps ==
    {"get_profile", "change_password",
     "create_paciente", "get_pacientes", "get_paciente", "update_paciente",
     "delete_paciente", "reativar_paciente",
     "create_consulta", "get_consultas", "get_consulta", "update_consulta_status",
     "create_prontuario", "update_prontuario"}

\* C17 as stated: every route other than register and login answers 401 to
\* a request with no credential or with one the server did not issue, and
\* leaves the store unchanged.
C17_EveryOtherEndpointGuarded ==
    [][(last'.op \notin {"register", "login"} /\ last'.req.cred \notin tokens)
       => (last'.status = 401 /\ store' = store)]_vars

\* C17: profile, change-password and every /pacientes, /consultas and
\* /prontuarios route answers 401 to a request with no credential or with
\* one the server did not issue, and leaves the store unchanged.
C17_ServiceEndpointsGuarded ==
    [][(last'.op \in ProtectedOps /\ last'.req.cred \notin tokens)
       => (last'.status = 401 /\ store' = store)]_vars

\* a delete of an active patient with a forged credential was just refused
C17_Witness ==
    /\ last.op = "delete_paciente" /\ last.status = 401
    /\ last.req.cred = ForgedCred
    /\ Exists(pacientes, 1) /\ pacientes[1].ativo
    /\ tokens # {}


\* the second run of a request is over
SecondRunOver == inflight # <<>> /\ inflight[1].run = 2 /\ last.op # "rollback"

\* C18: a request of a patient, appointment or note route, run twice from
\* the same store with issued credentials of accounts with different roles,
\* gets the same status both times and leaves the same store.
C18_RoleNotEnforced ==
    SecondRunOver =>
        /\ last.req.cred.tipo_usuario # inflight[1].last1.req.cred.tipo_usuario
        /\ last.op = inflight[1].last1.op
        /\ last.status = inflight[1].last1.status
        /\ store = inflight[1].store1

\* a receptionist's delete of an active patient did what a doctor's did
C18_Witness ==
    /\ SecondRunOver
    /\ last.op = "delete_paciente" /\ last.status = 200
    /\ last.req.cred.tipo_usuario = recepcionista
    /\ inflight[1].last1.req.cred.tipo_usuario = Txt_medico
    /\ ~pacientes[1].ativo


\* C19: an authenticated update_consulta_status of an existing appointment
\* whose target, once stripped, is 'agendada', 'realizada' or 'cancelada' is
\* answered 200 and sets the status to the target whatever the status was,
\* changing no other appointment; any other text is answered 400 and
\* changes nothing.
C19_AnyStatusFromAnyStatus ==
    [][(last'.op = "update_consulta_status" /\ last'.status # 401
          /\ Exists(consultas, last'.req.consulta_id)
          /\ last'.req.data.status.t = "str")
       => LET id == last'.req.consulta_id
              target == strip(last'.req.data.status.v)
          IN IF target \in {agendada, realizada, cancelada}
             THEN /\ last'.status = 200
                  /\ consultas'[id].status = target
                  /\ consultas' = [consultas EXCEPT ![id].status = target]
             ELSE last'.status = 400 /\ consultas' = consultas]_vars

\* appointment 1 was just moved back to 'agendada': its slot had been taken
\* by a later appointment while it was 'realizada' or 'cancelada'
C19_Witness ==
    /\ last.op = "update_consulta_status" /\ last.status = 200
    /\ last.req.consulta_id = 1
    /\ consultas[1].status = agendada
    /\ \E j \in Ids(consultas) :
          /\ j # 1 /\ consultas[j].status = agendada
          /\ consultas[j].medico_id = consultas[1].medico_id
          /\ consultas[j].data_consulta = consultas[1].data_consulta


\* a scheduling body that passes create_consulta's checks of presence:
\* text members, ids other than 0 and a date that is not blank
SchedulePresent(data) ==
    /\ data.data_consulta.t = "str"
    /\ data.tipo_consulta.t \in {"str", "absent"}
    /\ data.observacoes.t \in {"str", "absent"}
    /\ data.paciente_id # 0 /\ data.medico_id # 0
    /\ strip(data.data_consulta.v) # <<>>

\* C20: every stored appointment names an existing patient and an existing
\* account; an authenticated create_consulta with the required members is
\* answered 404 and stores nothing exactly when the patient is absent or
\* inactive or the provider account is absent.
C20_AppointmentReferences ==
    /\ [](\A i \in Ids(consultas) :
             /\ consultas[i].paciente_id \in Ids(pacientes)
             /\ consultas[i].medico_id \in Ids(users))
    /\ [][(last'.op = "create_consulta" /\ last'.status # 401
             /\ SchedulePresent(last'.req.data))
          => LET data == last'.req.data
             IN IF \/ ~Exists(pacientes, data.paciente_id)
                   \/ ~pacientes[data.paciente_id].ativo
                   \/ ~Exists(users, data.medico_id)
                THEN last'.status = 404 /\ consultas' = consultas
                ELSE last'.status # 404]_vars

\* an appointment for a deactivated patient, with an existing provider, was
\* just refused, while that patient still has an earlier appointment
C20_Witness ==
    /\ last.op = "create_consulta" /\ last.status = 404
    /\ Exists(pacientes, last.req.data.paciente_id)
    /\ ~pacientes[last.req.data.paciente_id].ativo
    /\ Exists(users, last.req.data.medico_id)
    /\ \E i \in Ids(consultas) : consultas[i].paciente_id = last.req.data.paciente_id


\* C21: every appointment that has a visit note has status 'realizada'.
C21_NoteImpliesCompleted ==
    \A i \in Ids(prontuarios) :
        consultas[prontuarios[i].consulta_id].status = realizada


\* the members update_paciente may write
EditableKeys == {"nome", "data_nascimento", "endereco", "telefone", "email"}

\* C22: a request answered 400, 401, 404, 409 or 500 leaves the store as it
\* was; in particular a refused update_paciente keeps the fields that came
\* before the refused one out of the store, and a field of a patient changes
\* only in a step answered 200 whose body carries that field.
C22_RefusedRequestChangesNothing ==
    /\ [][last'.status \in {400, 401, 404, 409, 500} => store' = store]_vars
    /\ [][\A i \in Ids(pacientes) : \A k \in EditableKeys :
            pacientes'[i][k] # pacientes[i][k] =>
                /\ last'.op = "update_paciente" /\ last'.status = 200
                /\ last'.req.paciente_id = i
                /\ last'.req.data[k].t # "absent"]_vars

\* an update whose nome was acceptable was just refused for a later member,
\* and the patient keeps the name it had
C22_Witness ==
    /\ last.op = "update_paciente" /\ last.status = 409
    /\ last.req.data.nome = S(Txt_Bia)
    /\ last.req.data.email = S(Email_b)
    /\ pacientes[last.req.paciente_id].nome = Txt_Ana


\* C23: an authenticated create_prontuario on an existing appointment
\* without a note, whose body supplies any subset of the four note members
\* as text (the empty subset included), is answered 201 and stores the
\* stripped text of each member supplied and null for each one omitted or
\* blank.
C23_EveryNoteSubsetAccepted ==
    [][(last'.op = "create_prontuario" /\ last'.status # 401
          /\ Exists(consultas, last'.req.consulta_id)
          /\ NotesOf(prontuarios, last'.req.consulta_id) = {}
          /\ \A k \in NoteKeys : last'.req.data[k].t \in {"str", "absent"})
       => /\ last'.status = 201
          /\ Len(prontuarios') = Len(prontuarios) + 1
          /\ \A k \in NoteKeys :
                prontuarios'[Len(prontuarios')][k] =
                    IF strip(get(last'.req.data[k]).v) = <<>> THEN Null
                    ELSE S(strip(last'.req.data[k].v))]_vars


\* no table loses a row in the step
NoRowRemoved ==
    /\ Ids(users) \subseteq Ids(users')
    /\ Ids(pacientes) \subseteq Ids(pacientes')
    /\ Ids(consultas) \subseteq Ids(consultas')
    /\ Ids(prontuarios) \subseteq Ids(prontuarios')

\* C24 as stated: no step removes an account, a patient, an appointment or
\* a note, and a delete_paciente answered 200 clears ativo and leaves every
\* other field of the patient as it was.
C24_NothingRemovedAllFieldsKept ==
    /\ [][NoRowRemoved]_vars
    /\ [][(Handles("delete_paciente") /\ last'.status = 200)
          => pacientes' = [pacientes EXCEPT ![last'.req.paciente_id].ativo = FALSE]]_vars

\* C24: no step removes an account, a patient, an appointment or a note,
\* and a delete_paciente answered 200 clears ativo and leaves every other
\* field of the patient as it was, but for the update timestamp, which
\* takes the time of the request.
C24_NothingRemovedFieldsKeptButTimestamp ==
    /\ [][NoRowRemoved]_vars
    /\ [][(Handles("delete_paciente") /\ last'.status = 200)
          => LET i == last'.req.paciente_id
             IN /\ ~pacientes'[i].ativo
                /\ pacientes'[i].data_atualizacao = clock
                /\ pacientes' = [pacientes EXCEPT ![i].ativo = FALSE,
                                                  ![i].data_atualizacao = clock]]_vars

\* a patient with an appointment and a note was just deactivated, later than
\* its last change; the three rows are still stored
C24_Witness ==
    /\ last.op = "delete_paciente" /\ last.status = 200
    /\ ~pacientes[1].ativo /\ pacientes[1].data_atualizacao > 0
    /\ \E i \in Ids(consultas) : consultas[i].paciente_id = 1
    /\ \E i \in Ids(prontuarios) : consultas[prontuarios[i].consulta_id].paciente_id = 1


\* the inactive patients that hold the cpf
InactiveWithCpf(cpf) ==
    {i \in Ids(pacientes) : ~pacientes[i].ativo /\ pacientes[i].cpf = cpf}

\* the inactive patients other than id that hold the email
InactiveWithEmail(email, id) ==
    {j \in HeldByOther(email, id) : ~pacientes[j].ativo}

\* C25: the cpf and the email of a deactivated patient stay taken: an
\* authenticated create_paciente with that cpf, and an otherwise valid
\* create_paciente or update_paciente of another patient with that email,
\* are answered 409 and change nothing; a cpf never changes, and an email
\* changes only by an update_paciente of its own, active, patient.
C25_InactivePatientsKeepCpfAndEmail ==
    /\ [][(Handles("create_paciente") /\ last'.status # 401
             /\ TextMembers(last'.req.data)
             /\ Len(strip(get(last'.req.data.nome).v)) >= MinNome
             /\ InactiveWithCpf(sub_nondigits(get(last'.req.data.cpf).v)) # {})
          => (last'.status = 409 /\ pacientes' = pacientes)]_vars
    /\ [][(Handles("create_paciente") /\ last'.status # 401
             /\ ValidNewPaciente(last'.req.data)
             /\ InactiveWithEmail(strip(get(last'.req.data.email).v), 0) # {})
          => (last'.status = 409 /\ pacientes' = pacientes)]_vars
    /\ [][(Handles("update_paciente") /\ last'.status # 401
             /\ paciente_editavel(last'.req.paciente_id)
             /\ OnlyEmail(last'.req.data)
             /\ InactiveWithEmail(strip(last'.req.data.email.v),
                                  last'.req.paciente_id) # {})
          => (last'.status = 409 /\ pacientes' = pacientes)]_vars
    /\ [][\A i \in Ids(pacientes) :
            /\ pacientes'[i].cpf = pacientes[i].cpf
            /\ pacientes'[i].email # pacientes[i].email
                 => /\ Handles("update_paciente") /\ last'.status = 200
                    /\ last'.req.paciente_id = i /\ pacientes[i].ativo]_vars

\* another patient just asked for the email of a deactivated patient and was
\* refused
C25_Witness ==
    /\ last.op = "update_paciente" /\ last.status = 409
    /\ OnlyEmail(last.req.data)
    /\ pacientes[last.req.paciente_id].ativo
    /\ InactiveWithEmail(strip(last.req.data.email.v), last.req.paciente_id) # {}


\* an update_paciente step leaves alone everything but the members in keys
\* of the addressed patient
UpdateTouchesOnly(keys) ==
    (Handles("update_paciente") /\ last'.status # 401) =>
        LET i == last'.req.paciente_id
        IN /\ users' = users /\ consultas' = consultas /\ prontuarios' = prontuarios
           /\ Len(pacientes') = Len(pacientes)
           /\ \A j \in Ids(pacientes) :
                 \A k \in DOMAIN pacientes[j] :
                     pacientes'[j][k] # pacientes[j][k] => (j = i /\ k \in keys)

\* C26 as stated: update_paciente changes nothing but nome,
\* data_nascimento, endereco, telefone and email of the addressed patient,
\* whatever members the body has.
C26_UpdateChangesOnlyFiveFields ==
    [][UpdateTouchesOnly(EditableKeys)]_vars

\* C26: update_paciente changes nothing but nome, data_nascimento, endereco,
\* telefone, email and the update timestamp of the addressed patient,
\* whatever members the body has: cpf and ativo stay, and so do the other
\* patients, the accounts, the appointments and the notes.
C26_UpdateChangesOnlyFiveFieldsAndTimestamp ==
    [][UpdateTouchesOnly(EditableKeys \cup {"data_atualizacao"})]_vars

\* an update whose body had another cpf and a new name was accepted: the
\* name changed and the cpf stayed, with a second patient, an appointment
\* and a note in the store
C26_Witness ==
    /\ last.op = "update_paciente" /\ last.status = 200
    /\ last.req.data.cpf = S(Cpf_arabe) /\ last.req.data.nome = S(Txt_Bia)
    /\ pacientes[1].nome = Txt_Bia
    /\ pacientes[1].cpf # sub_nondigits(Cpf_arabe)
    /\ Len(pacientes) > 1 /\ consultas # <<>> /\ prontuarios # <<>>


(***************************************************************************)
(* SpecSession: two accounts log in with their first password, one of     *)
(* them changes it, and every protected route is called with the          *)
(* credentials issued so far.  No login presents the new password, so a   *)
(* credential of an account whose password changed was issued before.     *)
(***************************************************************************)
RegisterInputsSession ==
    RegisterInputs \cup {RegisterBody(S(Txt_bob), S(Txt_senha1), S(Email_a), Absent)}
LoginInputsSession ==
    LoginInputs \cup {LoginBody(S(Txt_bob), S(Txt_senha1))}
PasswordInputsSession ==
    {PasswordBody(S(Txt_senha1), S(Txt_nova12)), PasswordBody(S(Txt_errada), S(Txt_nova12))}

NextSession ==
    \/ \E data \in RegisterInputsSession : register(data)
    \/ \E data \in LoginInputsSession : login(data)
    \/ \E cred \in CredInputs : get_profile(cred)
    \/ \E cred \in CredInputs, data \in PasswordInputsSession : change_password(cred, data)
    \/ \E cred \in CredInputs, data \in PacienteInputs : create_paciente(cred, data)
    \/ \E cred \in CredInputs : get_pacientes(cred, 1, 10, <<>>)
    \/ \E cred \in CredInputs : get_paciente(cred, 1)
    \/ \E cred \in CredInputs, data \in PacienteUpdatesGuard : update_paciente(cred, 1, data)
    \/ \E cred \in CredInputs : delete_paciente(cred, 1)
    \/ \E cred \in CredInputs : reativar_paciente(cred, 1)
    \/ \E cred \in CredInputs, data \in ConsultaInputsGuard : create_consulta(cred, data)
    \/ \E cred \in CredInputs : get_consultas(cred, 1, 10, 0, 0, <<>>, <<>>, <<>>)
    \/ \E cred \in CredInputs : get_consulta(cred, 1)
    \/ \E cred \in CredInputs, data \in StatusInputsGuard :
          update_consulta_status(cred, 1, data)
    \/ \E cred \in CredInputs, data \in NoteInputs : create_prontuario(cred, 1, data)
    \/ \E cred \in CredInputs, data \in NoteUpdates : update_prontuario(cred, 1, data)

SpecSession == Init /\ [][NextSession]_vars

\* the answer 401 of a protected route to an issued credential: only
\* change_password gives it, for a wrong current password
RefusedForPassword ==
    /\ last'.op = "change_password"
    /\ "data" \in DOMAIN last'.req
    /\ get(last'.req.data.current_password) # S(SecretOf(last'.req.cred.sub))

\* C27: an issued credential stays issued on every step, a password change
\* included; every protected route accepts it (no 401 but change_password's
\* own answer to a wrong current password); get_profile with it answers 200
\* with the id of the account it was issued to, never 404, since the
\* account of every issued credential is stored.
C27_CredentialsSurvivePasswordChange ==
    /\ [](\A c \in tokens : Exists(users, c.sub))
    /\ [][tokens \subseteq tokens']_vars
    /\ [][(last'.op \in ProtectedOps /\ last'.req.cred \in tokens) =>
             /\ last'.status = 401 => RefusedForPassword
             /\ last'.op = "get_profile" =>
                   (last'.status = 200 /\ last'.body.id = last'.req.cred.sub)]_vars

\* get_profile was just answered 200 for a credential of an account whose
\* password has been changed since the credential was issued
C27_Witness ==
    /\ last.op = "get_profile" /\ last.status = 200
    /\ last.req.cred \in tokens
    /\ last.body.id = last.req.cred.sub
    /\ SecretOf(last.req.cred.sub) = Txt_nova12
    /\ Len(users) > 1


(***************************************************************************)
(* SpecRace: create_paciente in two steps, the requests interleaving       *)
(* between the duplicate checks and the insert                             *)
(***************************************************************************)
\* create_paciente up to the last validation
begin_create_paciente(cred, data) ==
    LET req == [cred |-> cred, data |-> data]
        status == create_paciente_check(data)
    IN /\ Len(inflight) < MaxInflight
       /\ IF ~jwt_required(cred)
          THEN Reply("create_paciente", [cred |-> cred], 401, NoBody) /\ UNCHANGED inflight
          ELSE IF status # 0
          THEN Reply("create_paciente", req, status, NoBody) /\ UNCHANGED inflight
          ELSE /\ inflight' = Append(inflight, [op |-> "create_paciente", req |-> req])
               /\ UNCHANGED last
       /\ UNCHANGED <<store, tokens, clock, before_delete>>

\* create_paciente from db.session.add to the response
commit_create_paciente(k) ==
    /\ inflight[k].op = "create_paciente"
    /\ Len(pacientes) < MaxPacientes
    /\ pacientes' = pacientes_commit(Append(pacientes,
                                            create_paciente_row(inflight[k].req.data)))
    /\ IF Len(pacientes') > Len(pacientes)
       THEN Reply("create_paciente", inflight[k].req, 201, Len(pacientes'))
       ELSE Reply("create_paciente", inflight[k].req, 500, NoBody)
    /\ before_delete' = IF Len(pacientes') > Len(pacientes)
                        THEN Append(before_delete, <<>>) ELSE before_delete
    /\ inflight' = Remove(inflight, k)
    /\ UNCHANGED <<users, consultas, prontuarios, tokens, clock>>

\* one cpf written in two ways under two names, and another cpf
PacienteInputsRace ==
    {PacienteBody(S(Txt_Ana), S(Cpf_simples), Absent, Absent, Absent, Absent),
     PacienteBody(S(Txt_Bia), S(Cpf_formatado), Absent, Absent, Absent, Absent),
     PacienteBody(S(Txt_Bia), S(Cpf_arabe), Absent, Absent, Absent, S(Email_a)),
     PacienteBody(S(Txt_Ana), S(Cpf_simples), Absent, Absent, Absent, S(Email_a))}

NextRace ==
    \/ \E data \in RegisterInputs : register(data)
    \/ \E data \in LoginInputs : login(data)
    \/ \E cred \in CredInputs, data \in PacienteInputsRace :
          begin_create_paciente(cred, data)
    \/ \E k \in 1..Len(inflight) : commit_create_paciente(k)

SpecRace == Init /\ [][NextRace]_vars

\* the cpf create_paciente stores for a request
CpfOf(req) == limpar_cpf(strip(get(req.data.cpf).v))

\* the request of last' passed its checks and ran its insert in this step
Commits == Len(inflight') < Len(inflight)

\* C28: with the duplicate check and the insert of create_paciente as two
\* steps, no two stored patients ever share a cpf; an insert that finds its
\* cpf stored is answered 500 and stores nothing, a check that finds it is
\* answered 409, and the insert answered 201 found no patient with its cpf
\* and leaves exactly one.
C28_OneCreateWinsPerCpf ==
    /\ [](\A i, j \in Ids(pacientes) : i # j => pacientes[i].cpf # pacientes[j].cpf)
    /\ [][Commits =>
             LET cpf == CpfOf(last'.req)
             IN /\ last'.status \in {201, 500}
                /\ paciente_by_cpf(cpf) # {} =>
                      (last'.status = 500 /\ store' = store)
                /\ last'.status = 201 =>
                      /\ paciente_by_cpf(cpf) = {}
                      /\ Cardinality({i \in Ids(pacientes') : pacientes'[i].cpf = cpf}) = 1
                      /\ Len(pacientes') = Len(pacientes) + 1]_vars
    /\ [][(~Commits /\ inflight' = inflight /\ last'.op = "create_paciente"
           /\ last'.status # 401 /\ paciente_by_cpf(CpfOf(last'.req)) # {})
          => (last'.status \in {400, 409} /\ store' = store)]_vars

\* of two requests with one cpf that both passed the duplicate check, the
\* second to insert was just answered 500 and the first is the one stored
C28_Witness ==
    /\ last.op = "create_paciente" /\ last.status = 500
    /\ last.req.data.nome = S(Txt_Bia)
    /\ last.req.data.email = Absent
    /\ \E i \in Ids(pacientes) :
          /\ pacientes[i].cpf = CpfOf(last.req)
          /\ pacientes[i].nome = Txt_Ana
    /\ Cardinality({i \in Ids(pacientes) : pacientes[i].cpf = CpfOf(last.req)}) = 1

====
